---- MODULE Spec2Model ----
(***************************************************************************)
(* A model of rust-todo: the Task / Context / ContextManager data model    *)
(* (src/src/task.rs, src/src/context.rs), the JSON store with its atomic   *)
(* save (src/src/store.rs) and the command handlers with the partial-ID    *)
(* resolver and the merge / replace import (src/src/main.rs).              *)
(***************************************************************************)
EXTENDS Integers, Sequences, FiniteSets, TLC

VARIABLES
    manager,   \* the in-memory ContextManager of the running invocation
    last,      \* the last call made and the Result it returned
    fs,        \* the file system: path -> file content
    pc,        \* position of main() / Store::save
    imp,       \* progress of the merge loop of handle_import
    store,     \* the Store: its file_path
    sv         \* local variables of the running Store::save / Store::export

vars == <<manager, last, fs, pc, imp, store, sv>>

(***************************************************************************)
(* Bounds                                                                  *)
(***************************************************************************)
MaxTasks == 2          \* tasks held by one manager in the command specification
MaxIdLen == 2          \* longest task id / prefix in the resolver specification
MaxLen == 3            \* longest task list in the resolver specification
MaxSortLen == 3        \* longest drawn task list in the context specification

(***************************************************************************)
(* Results (src/src/error.rs)                                              *)
(***************************************************************************)
Ok(v) == [ok |-> TRUE, kind |-> "Ok", val |-> v]
OkUnit == Ok("")
Err(kind, msg) == [ok |-> FALSE, kind |-> kind, val |-> msg]

NoCall == [op |-> "none", arg |-> "", res |-> OkUnit]

(***************************************************************************)
(* Strings                                                                 *)
(***************************************************************************)
Upper == <<"A","B","C","D","E","F","G","H","I","J","K","L","M",
           "N","O","P","Q","R","S","T","U","V","W","X","Y","Z">>
Lower == <<"a","b","c","d","e","f","g","h","i","j","k","l","m",
           "n","o","p","q","r","s","t","u","v","w","x","y","z">>

LowerChar(c) ==
    IF \E i \in 1..26 : Upper[i] = c
    THEN Lower[CHOOSE i \in 1..26 : Upper[i] = c]
    ELSE c

RECURSIVE to_lowercase(_)
to_lowercase(s) ==
    IF Len(s) = 0 THEN ""
    ELSE LowerChar(SubSeq(s, 1, 1)) \o to_lowercase(SubSeq(s, 2, Len(s)))

starts_with(s, p) == Len(p) <= Len(s) /\ SubSeq(s, 1, Len(p)) = p

RECURSIVE join(_, _)
join(seq, sep) ==
    IF Len(seq) = 0 THEN ""
    ELSE IF Len(seq) = 1 THEN seq[1]
    ELSE seq[1] \o sep \o join(Tail(seq), sep)

(***************************************************************************)
(* Task (src/src/task.rs)                                                  *)
(***************************************************************************)
TimeHorizon == {"ShortTerm", "MidTerm", "LongTerm"}
Priority == {"Low", "Medium", "High"}

TimeHorizon_from_str(s) ==
    LET l == to_lowercase(s) IN
    IF l \in {"short", "shortterm", "short-term"} THEN Ok("ShortTerm")
    ELSE IF l \in {"mid", "midterm", "mid-term"} THEN Ok("MidTerm")
    ELSE IF l \in {"long", "longterm", "long-term"} THEN Ok("LongTerm")
    ELSE Err("InvalidTimeHorizon", s)

Priority_from_str(s) ==
    LET l == to_lowercase(s) IN
    IF l \in {"low", "l"} THEN Ok("Low")
    ELSE IF l \in {"medium", "med", "m"} THEN Ok("Medium")
    ELSE IF l \in {"high", "hi", "h"} THEN Ok("High")
    ELSE Err("InvalidPriority", s)

\* Task::new; id is the generated UUID and now the clock reading
Task_new(id, now, description, time_horizon, priority) ==
    [id |-> id, description |-> description, time_horizon |-> time_horizon,
     priority |-> priority, completed |-> FALSE, created_at |-> now]

\* Option<T>
None == [some |-> FALSE]
Some(v) == [some |-> TRUE, val |-> v]

\* a mark_complete that flips the flag
mark_complete_toggle(task) == [task EXCEPT !.completed = ~@]

\* Task::mark_complete
mark_complete(task) == [task EXCEPT !.completed = TRUE]

\* an update that takes an edited task for a reopened one
update_reopen(task, description, time_horizon, priority) ==
    [task EXCEPT !.description = IF description.some THEN description.val ELSE @,
                 !.time_horizon = IF time_horizon.some THEN time_horizon.val ELSE @,
                 !.priority = IF priority.some THEN priority.val ELSE @,
                 !.completed = FALSE]

\* Task::update: one "if let Some" per argument
update(task, description, time_horizon, priority) ==
    [task EXCEPT !.description = IF description.some THEN description.val ELSE @,
                 !.time_horizon = IF time_horizon.some THEN time_horizon.val ELSE @,
                 !.priority = IF priority.some THEN priority.val ELSE @]

(***************************************************************************)
(* Context (src/src/context.rs)                                            *)
(***************************************************************************)
Context_new(name) == [name |-> name, tasks |-> <<>>]

\* an add_task that pushes the task twice
add_task_twice(ctx, task) == [ctx EXCEPT !.tasks = Append(Append(@, task), task)]

add_task(ctx, task) == [ctx EXCEPT !.tasks = Append(@, task)]

\* the derived Ord of the two enums: the order of declaration
HorizonRank(h) == CASE h = "ShortTerm" -> 0 [] h = "MidTerm" -> 1 [] h = "LongTerm" -> 2
PriorityRank(p) == CASE p = "Low" -> 0 [] p = "Medium" -> 1 [] p = "High" -> 2

\* a key comparison that forgets the Reverse around the priority
key_less_no_reverse(a, b) ==
    \/ HorizonRank(a.time_horizon) < HorizonRank(b.time_horizon)
    \/ /\ a.time_horizon = b.time_horizon
       /\ PriorityRank(a.priority) < PriorityRank(b.priority)

\* (a.time_horizon, Reverse(a.priority)) < (b.time_horizon, Reverse(b.priority))
key_less(a, b) ==
    \/ HorizonRank(a.time_horizon) < HorizonRank(b.time_horizon)
    \/ /\ a.time_horizon = b.time_horizon
       /\ PriorityRank(a.priority) > PriorityRank(b.priority)

\* an insertion that puts the new reference before the references of equal key
insert_sorted_before_equal(tasks, out, i) ==
    LET later == {k \in 1..Len(out) : ~key_less(tasks[out[k]], tasks[i])}
        at == IF later = {} THEN Len(out) + 1 ELSE CHOOSE k \in later : \A j \in later : k <= j
    IN SubSeq(out, 1, at - 1) \o <<i>> \o SubSeq(out, at, Len(out))

\* the stable sort of slice::sort_by_key, one element at a time: reference i
\* goes before the first reference of strictly greater key
insert_sorted(tasks, out, i) ==
    LET later == {k \in 1..Len(out) : key_less(tasks[i], tasks[out[k]])}
        at == IF later = {} THEN Len(out) + 1 ELSE CHOOSE k \in later : \A j \in later : k <= j
    IN SubSeq(out, 1, at - 1) \o <<i>> \o SubSeq(out, at, Len(out))

RECURSIVE sort_by_key(_, _)
sort_by_key(tasks, n) ==
    IF n = 0 THEN <<>> ELSE insert_sorted(tasks, sort_by_key(tasks, n - 1), n)

\* Context::sorted_tasks; the Vec<&Task> is a sequence of positions in ctx.tasks
sorted_tasks(ctx) == sort_by_key(ctx.tasks, Len(ctx.tasks))

\* a filter that keeps every horizon up to the one asked for
tasks_by_horizon_upto(ctx, horizon) ==
    SelectSeq([i \in 1..Len(ctx.tasks) |-> i],
              LAMBDA i : HorizonRank(ctx.tasks[i].time_horizon) <= HorizonRank(horizon))

\* Context::tasks_by_horizon; the Vec<&Task> is a sequence of positions
tasks_by_horizon(ctx, horizon) ==
    SelectSeq([i \in 1..Len(ctx.tasks) |-> i],
              LAMBDA i : ctx.tasks[i].time_horizon = horizon)

\* Iterator::position: the first index whose task has this id, 0 for None
position(tasks, id) ==
    LET I == {i \in 1..Len(tasks) : tasks[i].id = id}
    IN IF I = {} THEN 0 ELSE CHOOSE i \in I : \A j \in I : i <= j

\* Vec::remove: the later elements move one place down
Vec_remove(tasks, index) ==
    SubSeq(tasks, 1, index - 1) \o SubSeq(tasks, index + 1, Len(tasks))

\* a remove_task built on Vec::swap_remove: the last task takes the place of
\* the removed one
remove_task_swap(ctx, id) ==
    LET index == position(ctx.tasks, id)
        n == Len(ctx.tasks)
        swapped == IF index = n THEN SubSeq(ctx.tasks, 1, n - 1)
                   ELSE [SubSeq(ctx.tasks, 1, n - 1) EXCEPT ![index] = ctx.tasks[n]]
    IN IF index = 0 THEN [ctx |-> ctx, res |-> Err("TaskNotFound", id), idx |-> 0]
       ELSE [ctx |-> [ctx EXCEPT !.tasks = swapped],
             res |-> Ok(ctx.tasks[index]), idx |-> index]

\* Context::remove_task
remove_task(ctx, id) ==
    LET index == position(ctx.tasks, id) IN
    IF index = 0 THEN [ctx |-> ctx, res |-> Err("TaskNotFound", id), idx |-> 0]
    ELSE [ctx |-> [ctx EXCEPT !.tasks = Vec_remove(@, index)],
          res |-> Ok(ctx.tasks[index]), idx |-> index]

(***************************************************************************)
(* ContextManager (src/src/context.rs)                                     *)
(***************************************************************************)
\* a constructor that makes "default" active before inserting any context
ContextManager_new_empty ==
    [contexts |-> [n \in {} |-> Context_new(n)], active_context |-> "default"]

ContextManager_new ==
    [contexts |-> [n \in {"default"} |-> Context_new("default")],
     active_context |-> "default"]

contains_key(map, k) == k \in DOMAIN map

insert(map, k, v) == [n \in DOMAIN map \cup {k} |-> IF n = k THEN v ELSE map[n]]

remove(map, k) == [n \in DOMAIN map \ {k} |-> map[n]]

\* a create_context that inserts before it looks for the name
create_context_clobber(m, name) ==
    IF contains_key(m.contexts, name)
    THEN [mgr |-> [m EXCEPT !.contexts = insert(@, name, Context_new(name))],
          res |-> Err("ContextAlreadyExists", name)]
    ELSE [mgr |-> [m EXCEPT !.contexts = insert(@, name, Context_new(name))],
          res |-> OkUnit]

\* a create_context that also makes the new context the active one
create_context_and_switch(m, name) ==
    IF contains_key(m.contexts, name)
    THEN [mgr |-> m, res |-> Err("ContextAlreadyExists", name)]
    ELSE [mgr |-> [contexts |-> insert(m.contexts, name, Context_new(name)),
                   active_context |-> name],
          res |-> OkUnit]

create_context(m, name) ==
    IF contains_key(m.contexts, name)
    THEN [mgr |-> m, res |-> Err("ContextAlreadyExists", name)]
    ELSE [mgr |-> [m EXCEPT !.contexts = insert(@, name, Context_new(name))],
          res |-> OkUnit]

\* a switch_context without the existence check
switch_context_unchecked(m, name) ==
    [mgr |-> [m EXCEPT !.active_context = name], res |-> OkUnit]

\* a switch_context that starts the target context afresh
switch_context_fresh(m, name) ==
    IF ~contains_key(m.contexts, name)
    THEN [mgr |-> m, res |-> Err("ContextNotFound", name)]
    ELSE [mgr |-> [contexts |-> insert(m.contexts, name, Context_new(name)),
                   active_context |-> name],
          res |-> OkUnit]

switch_context(m, name) ==
    IF ~contains_key(m.contexts, name)
    THEN [mgr |-> m, res |-> Err("ContextNotFound", name)]
    ELSE [mgr |-> [m EXCEPT !.active_context = name], res |-> OkUnit]

\* a delete_context that tests the active context before the last context
delete_context_active_first(m, name) ==
    IF ~contains_key(m.contexts, name)
    THEN [mgr |-> m, res |-> Err("ContextNotFound", name)]
    ELSE IF m.active_context = name
    THEN [mgr |-> m,
          res |-> Err("ContextNotFound",
                      "Cannot delete active context '" \o name
                          \o "'. Switch to another context first.")]
    ELSE IF Cardinality(DOMAIN m.contexts) <= 1
    THEN [mgr |-> m, res |-> Err("CannotDeleteLastContext", "")]
    ELSE [mgr |-> [m EXCEPT !.contexts = remove(@, name)], res |-> OkUnit]

\* a delete_context without the active-context check
delete_context_no_active_check(m, name) ==
    IF ~contains_key(m.contexts, name)
    THEN [mgr |-> m, res |-> Err("ContextNotFound", name)]
    ELSE IF Cardinality(DOMAIN m.contexts) <= 1
    THEN [mgr |-> m, res |-> Err("CannotDeleteLastContext", "")]
    ELSE [mgr |-> [m EXCEPT !.contexts = remove(@, name)], res |-> OkUnit]

\* a delete_context that tests the last context before the name
delete_context_last_first(m, name) ==
    IF Cardinality(DOMAIN m.contexts) <= 1
    THEN [mgr |-> m, res |-> Err("CannotDeleteLastContext", "")]
    ELSE IF ~contains_key(m.contexts, name)
    THEN [mgr |-> m, res |-> Err("ContextNotFound", name)]
    ELSE IF m.active_context = name
    THEN [mgr |-> m,
          res |-> Err("ContextNotFound",
                      "Cannot delete active context '" \o name
                          \o "'. Switch to another context first.")]
    ELSE [mgr |-> [m EXCEPT !.contexts = remove(@, name)], res |-> OkUnit]

delete_context(m, name) ==
    IF ~contains_key(m.contexts, name)
    THEN [mgr |-> m, res |-> Err("ContextNotFound", name)]
    ELSE IF Cardinality(DOMAIN m.contexts) <= 1
    THEN [mgr |-> m, res |-> Err("CannotDeleteLastContext", "")]
    ELSE IF m.active_context = name
    THEN [mgr |-> m,
          res |-> Err("ContextNotFound",
                      "Cannot delete active context '" \o name
                          \o "'. Switch to another context first.")]
    ELSE [mgr |-> [m EXCEPT !.contexts = remove(@, name)], res |-> OkUnit]

\* active_context_mut().add_task(task): the lookup panics when the key is absent
active_add_task(m, task) ==
    [m EXCEPT !.contexts[m.active_context] = add_task(@, task)]

TaskCount(m) ==
    LET RECURSIVE Sum(_)
        Sum(S) == IF S = {} THEN 0
                  ELSE LET n == CHOOSE n \in S : TRUE
                       IN Len(m.contexts[n].tasks) + Sum(S \ {n})
    IN Sum(DOMAIN m.contexts)

TaskIdsOf(m) ==
    UNION {{m.contexts[n].tasks[i].id : i \in 1..Len(m.contexts[n].tasks)}
              : n \in DOMAIN m.contexts}

(***************************************************************************)
(* Partial-ID resolver (src/src/main.rs)                                   *)
(***************************************************************************)
find_task(ctx, id) ==
    LET I == {i \in 1..Len(ctx.tasks) : ctx.tasks[i].id = id}
    IN IF I = {} THEN 0 ELSE CHOOSE i \in I : \A j \in I : i <= j

TaskIdSeq(ctx) == [i \in 1..Len(ctx.tasks) |-> ctx.tasks[i].id]

\* a resolver that takes the first match and never reports an ambiguity
find_task_id_first_match(ctx, partial_id) ==
    LET matches == SelectSeq(TaskIdSeq(ctx), LAMBDA id : starts_with(id, partial_id))
    IN IF Len(matches) = 0 THEN Err("TaskNotFound", partial_id)
       ELSE Ok(matches[1])

\* a resolver that takes p for a prefix only when it is shorter than the id
find_task_id_by_proper_prefix(ctx, partial_id) ==
    LET matches == SelectSeq(TaskIdSeq(ctx),
                             LAMBDA id : starts_with(id, partial_id) /\ id # partial_id)
    IN IF Len(matches) = 0 THEN Err("TaskNotFound", partial_id)
       ELSE IF Len(matches) = 1 THEN Ok(matches[1])
       ELSE Err("TaskNotFound",
                "Ambiguous ID '" \o partial_id \o "' matches multiple tasks: "
                    \o join(matches, ", "))

find_task_id_by_partial(ctx, partial_id) ==
    LET matches == SelectSeq(TaskIdSeq(ctx), LAMBDA id : starts_with(id, partial_id))
    IN IF Len(matches) = 0 THEN Err("TaskNotFound", partial_id)
       ELSE IF Len(matches) = 1 THEN Ok(matches[1])
       ELSE Err("TaskNotFound",
                "Ambiguous ID '" \o partial_id \o "' matches multiple tasks: "
                    \o join(matches, ", "))

\* a lookup that hands find_task_mut the prefix in place of the full id
find_task_by_partial_id_exact(ctx, partial_id) ==
    LET full_id == find_task_id_by_partial(ctx, partial_id)
    IN IF ~full_id.ok THEN [res |-> full_id, idx |-> 0]
       ELSE IF find_task(ctx, partial_id) = 0
       THEN [res |-> Err("TaskNotFound", partial_id), idx |-> 0]
       ELSE [res |-> full_id, idx |-> find_task(ctx, partial_id)]

\* the &mut Task is modelled by the position of the task in ctx.tasks
find_task_by_partial_id(ctx, partial_id) ==
    LET full_id == find_task_id_by_partial(ctx, partial_id)
    IN IF ~full_id.ok THEN [res |-> full_id, idx |-> 0]
       ELSE IF find_task(ctx, full_id.val) = 0
       THEN [res |-> Err("TaskNotFound", partial_id), idx |-> 0]
       ELSE [res |-> full_id, idx |-> find_task(ctx, full_id.val)]

active_context(m) == m.contexts[m.active_context]

(***************************************************************************)
(* JSON documents (serde / serde_json as used by src/src/store.rs)         *)
(***************************************************************************)
JStr(x) == [t |-> "str", v |-> x]
JBool(b) == [t |-> "bool", v |-> b]
JArr(seq) == [t |-> "arr", v |-> seq]
JObj(pairs) == [t |-> "obj", v |-> pairs]
JBad == [t |-> "bad", v |-> <<>>]

\* the value of field k of a struct: missing and duplicate fields are errors
Field(obj, k) ==
    IF obj.t # "obj" THEN JBad
    ELSE LET I == {i \in 1..Len(obj.v) : obj.v[i][1] = k}
         IN IF Cardinality(I) # 1 THEN JBad
            ELSE obj.v[CHOOSE i \in I : TRUE][2]

Task_to_json(task) ==
    JObj(<< <<"id", JStr(task.id)>>,
            <<"description", JStr(task.description)>>,
            <<"time_horizon", JStr(task.time_horizon)>>,
            <<"priority", JStr(task.priority)>>,
            <<"completed", JBool(task.completed)>>,
            <<"created_at", JStr(task.created_at)>> >>)

Context_to_json(ctx) ==
    JObj(<< <<"name", JStr(ctx.name)>>,
            <<"tasks", JArr([i \in 1..Len(ctx.tasks) |-> Task_to_json(ctx.tasks[i])])>> >>)

\* a serializer that writes each context under its name field
StorageData_to_json_by_name(data, order) ==
    JObj(<< <<"version", JStr(data.version)>>,
            <<"contexts",
              JObj([i \in 1..Len(order) |->
                       <<data.contexts[order[i]].name,
                         Context_to_json(data.contexts[order[i]])>>])>>,
            <<"active_context", JStr(data.active_context)>> >>)

\* order is the iteration order of the HashMap, any permutation of its keys
StorageData_to_json(data, order) ==
    JObj(<< <<"version", JStr(data.version)>>,
            <<"contexts",
              JObj([i \in 1..Len(order) |->
                       <<order[i], Context_to_json(data.contexts[order[i]])>>])>>,
            <<"active_context", JStr(data.active_context)>> >>)

Task_from_json(j) ==
    LET id == Field(j, "id")
        de == Field(j, "description")
        th == Field(j, "time_horizon")
        pr == Field(j, "priority")
        co == Field(j, "completed")
        cr == Field(j, "created_at")
    IN IF /\ id.t = "str" /\ de.t = "str" /\ cr.t = "str" /\ co.t = "bool"
          /\ th.t = "str" /\ pr.t = "str"
       THEN IF th.v \in TimeHorizon /\ pr.v \in Priority
            THEN [ok |-> TRUE,
                  val |-> [id |-> id.v, description |-> de.v, time_horizon |-> th.v,
                           priority |-> pr.v, completed |-> co.v, created_at |-> cr.v]]
            ELSE [ok |-> FALSE]
       ELSE [ok |-> FALSE]

Context_from_json(j) ==
    LET na == Field(j, "name")
        ta == Field(j, "tasks")
    IN IF na.t = "str" /\ ta.t = "arr"
       THEN IF \A i \in 1..Len(ta.v) : Task_from_json(ta.v[i]).ok
            THEN [ok |-> TRUE,
                  val |-> [name |-> na.v,
                           tasks |-> [i \in 1..Len(ta.v) |-> Task_from_json(ta.v[i]).val]]]
            ELSE [ok |-> FALSE]
       ELSE [ok |-> FALSE]

\* HashMap<String, Context>: a repeated key keeps its last value
Contexts_from_json(j) ==
    IF j.t # "obj" THEN [ok |-> FALSE]
    ELSE IF \A i \in 1..Len(j.v) : Context_from_json(j.v[i][2]).ok
    THEN [ok |-> TRUE,
          val |-> [k \in {j.v[i][1] : i \in 1..Len(j.v)} |->
                     LET I == {i \in 1..Len(j.v) : j.v[i][1] = k}
                         hi == CHOOSE i \in I : \A i2 \in I : i2 <= i
                     IN Context_from_json(j.v[hi][2]).val]]
    ELSE [ok |-> FALSE]

StorageData_from_json(j) ==
    LET ve == Field(j, "version")
        cs == Field(j, "contexts")
        ac == Field(j, "active_context")
    IN IF ve.t = "str" /\ ac.t = "str" /\ cs.t = "obj"
       THEN IF Contexts_from_json(cs).ok
            THEN [ok |-> TRUE,
                  val |-> [version |-> ve.v, contexts |-> Contexts_from_json(cs).val,
                           active_context |-> ac.v]]
            ELSE [ok |-> FALSE]
       ELSE [ok |-> FALSE]

(***************************************************************************)
(* Files and paths (std::fs, std::path as used by src/src/store.rs)        *)
(***************************************************************************)
Absent == [kind |-> "absent", complete |-> FALSE, doc |-> JBad]
Text(doc) == [kind |-> "file", complete |-> TRUE, doc |-> doc]
\* a file whose write was cut short: a strict prefix of the text of doc
Partial(doc) == [kind |-> "file", complete |-> FALSE, doc |-> doc]
Garbage == Text(JBad)

LastIndexOf(s, c) ==
    LET I == {i \in 1..Len(s) : SubSeq(s, i, i) = c}
    IN IF I = {} THEN 0 ELSE CHOOSE i \in I : \A j \in I : j <= i

file_name(path) == SubSeq(path, LastIndexOf(path, "/") + 1, Len(path))

with_extension(path, ext) ==
    LET fname == file_name(path)
        dot == LastIndexOf(fname, ".")
        stem == IF dot <= 1 THEN fname ELSE SubSeq(fname, 1, dot - 1)
    IN IF fname = "" THEN path
       ELSE SubSeq(path, 1, Len(path) - Len(fname)) \o stem \o "." \o ext

parent(path) ==
    IF LastIndexOf(path, "/") = 0 THEN ""
    ELSE SubSeq(path, 1, LastIndexOf(path, "/") - 1)

RECURSIVE create_dir_all(_, _)
create_dir_all(dirs, d) ==
    IF d = "" THEN dirs ELSE create_dir_all(dirs, parent(d)) \cup {d}

exists(files, path) == path \in DOMAIN files /\ files[path].kind # "absent"

read_to_string(files, path) ==
    IF exists(files, path) THEN [ok |-> TRUE, val |-> files[path]]
    ELSE [ok |-> FALSE]

\* serde_json::from_str::<StorageData>
from_str(text) ==
    IF text.complete THEN StorageData_from_json(text.doc) ELSE [ok |-> FALSE]

(***************************************************************************)
(* Store (src/src/store.rs)                                                *)
(***************************************************************************)
StorageData_new(contexts, active) ==
    [version |-> "1.0.0", contexts |-> contexts, active_context |-> active]

NoManager == [contexts |-> [n \in {} |-> Context_new(n)], active_context |-> ""]

\* a projection without the validation of active_context
manager_of_unvalidated(data) ==
    [res |-> OkUnit,
     mgr |-> [contexts |-> data.contexts, active_context |-> data.active_context]]

\* the validation and projection shared by load and import
manager_of(data) ==
    IF ~contains_key(data.contexts, data.active_context)
    THEN [res |-> Err("InvalidDataFormat",
                      "Active context '" \o data.active_context
                          \o "' does not exist in contexts"),
          mgr |-> NoManager]
    ELSE [res |-> OkUnit,
          mgr |-> [contexts |-> data.contexts, active_context |-> data.active_context]]

\* an import that treats a missing file the way load does
import_or_default(files, import_path) ==
    LET contents == read_to_string(files, import_path) IN
    IF ~contents.ok THEN [res |-> OkUnit, mgr |-> ContextManager_new]
    ELSE LET data == from_str(contents.val) IN
         IF ~data.ok THEN [res |-> Err("JsonError", import_path), mgr |-> NoManager]
         ELSE manager_of(data.val)

import(files, import_path) ==
    LET contents == read_to_string(files, import_path) IN
    IF ~contents.ok THEN [res |-> Err("IoError", import_path), mgr |-> NoManager]
    ELSE LET data == from_str(contents.val) IN
         IF ~data.ok THEN [res |-> Err("JsonError", import_path), mgr |-> NoManager]
         ELSE manager_of(data.val)

\* a load that also recovers from a file it cannot parse
load_lenient(files, file_path) ==
    IF ~exists(files, file_path)
    THEN [res |-> OkUnit, mgr |-> ContextManager_new]
    ELSE LET data == from_str(files[file_path]) IN
         IF ~data.ok THEN [res |-> OkUnit, mgr |-> ContextManager_new]
         ELSE manager_of(data.val)

load(files, file_path) ==
    IF ~exists(files, file_path)
    THEN [res |-> OkUnit, mgr |-> ContextManager_new]
    ELSE LET contents == read_to_string(files, file_path) IN
         IF ~contents.ok THEN [res |-> Err("IoError", file_path), mgr |-> NoManager]
         ELSE LET data == from_str(contents.val) IN
              IF ~data.ok THEN [res |-> Err("JsonError", file_path), mgr |-> NoManager]
              ELSE manager_of(data.val)

\* to_string_pretty(StorageData::new(..)); order is the HashMap's iteration order
to_string_pretty(m, order) ==
    Text(StorageData_to_json(StorageData_new(m.contexts, m.active_context), order))

\* a save that writes the target file in place
temp_path_in_place(file_path) == file_path

temp_path_of(file_path) == with_extension(file_path, "json.tmp")

\* a write that leaves a file that is already there as it is
write_keep_existing(files, path, text) ==
    [p \in DOMAIN files \cup {path} |->
        IF p = path /\ ~exists(files, path) THEN text ELSE files[p]]

\* std::fs::write: create or truncate, then write everything
write(files, path, text) == [p \in DOMAIN files \cup {path} |-> IF p = path THEN text ELSE files[p]]

\* a rename that copies: the source stays where it was
rename_copy(files, from, to) ==
    [p \in DOMAIN files \cup {to} |-> IF p = to THEN files[from] ELSE files[p]]

\* std::fs::rename: the source replaces the destination in one step
rename(files, from, to) ==
    [p \in DOMAIN files \cup {to} |->
        IF p = to THEN files[from] ELSE IF p = from THEN Absent ELSE files[p]]

RECURSIVE Perms(_)
Perms(S) ==
    IF S = {} THEN {<<>>}
    ELSE UNION {{<<x>> \o o : o \in Perms(S \ {x})} : x \in S}

(***************************************************************************)
(* Command handlers (src/src/main.rs)                                      *)
(***************************************************************************)
handle_add(m, id, now, description, horizon, priority) ==
    LET h == TimeHorizon_from_str(horizon)
        p == Priority_from_str(priority)
    IN IF ~h.ok THEN [mgr |-> m, res |-> h]
       ELSE IF ~p.ok THEN [mgr |-> m, res |-> p]
       ELSE [mgr |-> active_add_task(m, Task_new(id, now, description, h.val, p.val)),
             res |-> OkUnit]

\* a handle_complete that marks every task of the active context
handle_complete_all(m, id) ==
    LET r == find_task_by_partial_id(active_context(m), id) IN
    IF ~r.res.ok THEN [mgr |-> m, res |-> r.res, idx |-> 0]
    ELSE [mgr |-> [m EXCEPT !.contexts[m.active_context].tasks =
                               [i \in DOMAIN @ |-> mark_complete(@[i])]],
          res |-> OkUnit, idx |-> r.idx]

handle_complete(m, id) ==
    LET r == find_task_by_partial_id(active_context(m), id) IN
    IF ~r.res.ok THEN [mgr |-> m, res |-> r.res, idx |-> 0]
    ELSE [mgr |-> [m EXCEPT !.contexts[m.active_context].tasks[r.idx] = mark_complete(@)],
          res |-> OkUnit, idx |-> r.idx]

\* horizon and priority are the optional strings of the command line
\* an edit that looks the task up and sets the description before it parses
\* the horizon and the priority
handle_edit_lookup_first(m, id, description, horizon, priority) ==
    LET h == IF horizon.some THEN TimeHorizon_from_str(horizon.val) ELSE Ok("")
        p == IF priority.some THEN Priority_from_str(priority.val) ELSE Ok("")
        time_horizon == IF horizon.some THEN Some(h.val) ELSE None
        priority_level == IF priority.some THEN Some(p.val) ELSE None
        r == find_task_by_partial_id(active_context(m), id)
        d == IF ~r.res.ok THEN m
             ELSE [m EXCEPT !.contexts[m.active_context].tasks[r.idx] =
                               update(@, description, None, None)]
    IN IF ~r.res.ok THEN [mgr |-> m, res |-> r.res, idx |-> 0]
       ELSE IF ~h.ok THEN [mgr |-> d, res |-> h, idx |-> 0]
       ELSE IF ~p.ok THEN [mgr |-> d, res |-> p, idx |-> 0]
       ELSE [mgr |-> [m EXCEPT !.contexts[m.active_context].tasks[r.idx] =
                                  update(@, description, time_horizon, priority_level)],
             res |-> OkUnit, idx |-> r.idx]

handle_edit(m, id, description, horizon, priority) ==
    LET h == IF horizon.some THEN TimeHorizon_from_str(horizon.val) ELSE Ok("")
        p == IF priority.some THEN Priority_from_str(priority.val) ELSE Ok("")
        time_horizon == IF horizon.some THEN Some(h.val) ELSE None
        priority_level == IF priority.some THEN Some(p.val) ELSE None
        r == find_task_by_partial_id(active_context(m), id)
    IN IF ~h.ok THEN [mgr |-> m, res |-> h, idx |-> 0]
       ELSE IF ~p.ok THEN [mgr |-> m, res |-> p, idx |-> 0]
       ELSE IF ~r.res.ok THEN [mgr |-> m, res |-> r.res, idx |-> 0]
       ELSE [mgr |-> [m EXCEPT !.contexts[m.active_context].tasks[r.idx] =
                                  update(@, description, time_horizon, priority_level)],
             res |-> OkUnit, idx |-> r.idx]

handle_delete(m, id) ==
    LET context == active_context(m)
        full_id == find_task_id_by_partial(context, id)
        r == remove_task(context, full_id.val)
    IN IF ~full_id.ok THEN [mgr |-> m, res |-> full_id, idx |-> 0]
       ELSE IF ~r.res.ok THEN [mgr |-> m, res |-> r.res, idx |-> 0]
       ELSE [mgr |-> [m EXCEPT !.contexts[m.active_context] = r.ctx],
             res |-> OkUnit, idx |-> r.idx]

\* the rename loop of the merge: "<name>-imported", then "-imported-2", ...
RECURSIVE next_free_name(_, _, _)
next_free_name(contexts, context_name, counter) ==
    LET new_name == IF counter = 1 THEN context_name \o "-imported"
                    ELSE context_name \o "-imported-" \o ToString(counter)
    IN IF contains_key(contexts, new_name)
       THEN next_free_name(contexts, context_name, counter + 1)
       ELSE new_name

RECURSIVE add_all(_, _)
add_all(ctx, tasks) ==
    IF Len(tasks) = 0 THEN ctx ELSE add_all(add_task(ctx, Head(tasks)), Tail(tasks))

\* a loop body that inserts the imported context under its own name
merge_context_overwrite(m, context_name, context) ==
    [mgr |-> [m EXCEPT !.contexts = insert(@, context_name, context)],
     res |-> OkUnit, stored |-> context_name]

\* a name chosen without the loop
unique_import_name_unchecked(contexts, context_name) == context_name \o "-imported"

unique_import_name(contexts, context_name) == next_free_name(contexts, context_name, 1)

\* a free name filled with a new empty context
merge_context_drop_tasks(m, context_name, context) ==
    IF contains_key(m.contexts, context_name)
    THEN merge_context_overwrite(m, context_name \o "-imported", context)
    ELSE [mgr |-> [m EXCEPT !.contexts = insert(@, context_name, Context_new(context_name))],
          res |-> OkUnit, stored |-> context_name]

\* a rename that tries "<name>-imported" once, an "if" in place of the "while"
merge_context_single_try(m, context_name, context) ==
    IF contains_key(m.contexts, context_name)
    THEN LET new_name == context_name \o "-imported"
             r == create_context(m, new_name)
         IN IF ~r.res.ok THEN [mgr |-> m, res |-> r.res, stored |-> new_name]
            ELSE [mgr |-> [r.mgr EXCEPT !.contexts[new_name] = add_all(@, context.tasks)],
                  res |-> OkUnit, stored |-> new_name]
    ELSE [mgr |-> [m EXCEPT !.contexts = insert(@, context_name, context)],
          res |-> OkUnit, stored |-> context_name]

\* one iteration of the merge loop of handle_import
merge_context(m, context_name, context) ==
    IF contains_key(m.contexts, context_name)
    THEN LET new_name == unique_import_name(m.contexts, context_name)
             r == create_context(m, new_name)
         IN IF ~r.res.ok THEN [mgr |-> m, res |-> r.res, stored |-> new_name]
            ELSE [mgr |-> [r.mgr EXCEPT !.contexts[new_name] = add_all(@, context.tasks)],
                  res |-> OkUnit, stored |-> new_name]
    ELSE [mgr |-> [m EXCEPT !.contexts = insert(@, context_name, context)],
          res |-> OkUnit, stored |-> context_name]

\* a replacement that keeps the live contexts the import does not name
replace_manager_keep_live(live, imported) ==
    [contexts |-> [n \in DOMAIN live.contexts \cup DOMAIN imported.contexts |->
                      IF n \in DOMAIN imported.contexts THEN imported.contexts[n]
                      ELSE live.contexts[n]],
     active_context |-> imported.active_context]

\* a replacement of the contexts that keeps the live active_context
replace_manager_keep_active(live, imported) ==
    [contexts |-> imported.contexts, active_context |-> live.active_context]

\* the replace branch of handle_import: *manager = imported_manager
replace_manager(live, imported) == imported

\* the whole merge loop of handle_import, the entries taken in this order
RECURSIVE merge_all(_, _, _)
merge_all(m, src, order) ==
    IF Len(order) = 0 THEN m
    ELSE merge_all(merge_context(m, Head(order), src[Head(order)]).mgr, src, Tail(order))

\* a main that saves whatever the command returned
after_command_always_save(res) == "save"

\* where main goes after a command handler returned res
after_command(res) == IF res.ok THEN "save" ELSE "exit_err"

handle_context(m, action, name) ==
    IF action = "new" THEN create_context(m, name)
    ELSE IF action = "switch" THEN switch_context(m, name)
    ELSE delete_context(m, name)

(***************************************************************************)
(* The command specification: calls on one ContextManager                  *)
(***************************************************************************)
CtxNames == {"default", "work", "home"}
Uuids == {"aa", "ab", "ba"}
Times == {"t1"}
Descs == {"d1"}
HorizonArgs == {"short", "Mid-Term", "bogus"}
PriorityArgs == {"h", "zzz"}

NoFs == [files |-> [p \in {} |-> Absent], dirs |-> {}]
NoImp == [on |-> FALSE]
NoSave == [on |-> FALSE]
NoStore == [file_path |-> "data.json"]

Init ==
    /\ manager = ContextManager_new
    /\ last = NoCall
    /\ fs = NoFs
    /\ pc = "cmd"
    /\ imp = NoImp
    /\ store = NoStore
    /\ sv = NoSave

CreateContext(name) ==
    /\ pc = "cmd"
    /\ LET r == create_context(manager, name) IN
        /\ manager' = r.mgr
        /\ last' = [op |-> "create_context", arg |-> name, res |-> r.res]
    /\ UNCHANGED <<fs, pc, imp, store, sv>>

SwitchContext(name) ==
    /\ pc = "cmd"
    /\ LET r == switch_context(manager, name) IN
        /\ manager' = r.mgr
        /\ last' = [op |-> "switch_context", arg |-> name, res |-> r.res]
    /\ UNCHANGED <<fs, pc, imp, store, sv>>

DeleteContext(name) ==
    /\ pc = "cmd"
    /\ LET r == delete_context(manager, name) IN
        /\ manager' = r.mgr
        /\ last' = [op |-> "delete_context", arg |-> name, res |-> r.res]
    /\ UNCHANGED <<fs, pc, imp, store, sv>>

HandleAdd(id, now, description, horizon, priority) ==
    /\ pc = "cmd"
    /\ TaskCount(manager) < MaxTasks
    /\ id \notin TaskIdsOf(manager)
    /\ LET r == handle_add(manager, id, now, description, horizon, priority) IN
        /\ manager' = r.mgr
        /\ last' = [op |-> "add", arg |-> description, res |-> r.res]
    /\ UNCHANGED <<fs, pc, imp, store, sv>>

Next ==
    \/ \E name \in CtxNames : CreateContext(name)
    \/ \E name \in CtxNames : SwitchContext(name)
    \/ \E name \in CtxNames : DeleteContext(name)
    \/ \E id \in Uuids, now \in Times, d \in Descs,
          h \in HorizonArgs, p \in PriorityArgs : HandleAdd(id, now, d, h, p)

Spec == Init /\ [][Next]_vars

(***************************************************************************)
(* The invocation specification: one run of main() on drawn files          *)
(***************************************************************************)
T1 == [id |-> "aa", description |-> "d1", time_horizon |-> "ShortTerm",
       priority |-> "High", completed |-> FALSE, created_at |-> "t1"]
T2 == [id |-> "ab", description |-> "d2", time_horizon |-> "LongTerm",
       priority |-> "Low", completed |-> TRUE, created_at |-> "t2"]
T3 == [id |-> "aa", description |-> "d3", time_horizon |-> "MidTerm",
       priority |-> "Medium", completed |-> FALSE, created_at |-> "t1"]

Ctx(name, tasks) == [name |-> name, tasks |-> tasks]

Doc(order, ctxs, active) ==
    JObj(<< <<"version", JStr("1.0.0")>>,
            <<"contexts",
              JObj([i \in 1..Len(order) |-> <<order[i], Context_to_json(ctxs[i])>>])>>,
            <<"active_context", JStr(active)>> >>)

\* store files left by earlier invocations, or damaged by hand
TargetFiles ==
    { Absent,
      Garbage,
      Text(Doc(<<"default", "work">>,
               <<Ctx("default", <<>>), Ctx("work", <<T1>>)>>, "default")),
      Text(Doc(<<"work-imported", "work">>,
               <<Ctx("work-imported", <<T2>>), Ctx("work", <<T1>>)>>, "work")),
      Text(Doc(<<"work", "work-imported", "work-imported-2">>,
               <<Ctx("work", <<T1>>), Ctx("work-imported", <<>>),
                 Ctx("work-imported-2", <<T2>>)>>, "work-imported")),
      Text(Doc(<<"work">>, <<Ctx("work", <<T1>>)>>, "gone")) }

\* files a user may hand to the import command
ExtFiles ==
    { Absent,
      Garbage,
      Partial(Doc(<<"work">>, <<Ctx("work", <<T2>>)>>, "work")),
      Text(Doc(<<"work">>, <<Ctx("work", <<T2, T3>>)>>, "work")),
      Text(Doc(<<"work-imported", "work">>,
               <<Ctx("work-imported", <<T3>>), Ctx("work", <<T2>>)>>, "work")),
      Text(Doc(<<"work">>, <<Ctx("work", <<T2>>)>>, "nope")),
      Text(Doc(<<"work">>, <<Ctx("other", <<T2>>)>>, "work")),
      Text(JObj(<< <<"version", JStr("1.0.0")>>,
                   <<"contexts",
                     JObj(<< <<"work",
                               JObj(<< <<"name", JStr("work")>>,
                                       <<"tasks",
                                         JArr(<< JObj(<< <<"id", JStr("aa")>>,
                                                        <<"description", JStr("d")>>,
                                                        <<"time_horizon", JStr("Urgent")>>,
                                                        <<"priority", JStr("Low")>>,
                                                        <<"completed", JBool(FALSE)>>,
                                                        <<"created_at", JStr("t")>> >>) >>)>> >>)>> >>)>>,
                   <<"active_context", JStr("work")>> >>)) }

StorePaths == {"data.json", "rust-todo/data.json"}
ExtPath == "backup/export.json"
MainNames == {"work", "home"}
ContextActions == {"new", "switch", "delete"}

DirsOf(files) == {parent(p) : p \in {q \in DOMAIN files : files[q].kind # "absent"}} \ {""}

RunningPcs == {"start", "cmd", "merge", "export_writing", "save",
               "save_write", "save_writing", "save_rename"}

InitMain ==
    /\ \E path \in StorePaths, target \in TargetFiles, ext \in ExtFiles :
          /\ store = [file_path |-> path]
          /\ LET files == [p \in {path, temp_path_of(path), ExtPath} |->
                              IF p = path THEN target
                              ELSE IF p = ExtPath THEN ext ELSE Absent]
             IN fs = [files |-> files, dirs |-> DirsOf(files)]
    /\ manager = NoManager
    /\ last = NoCall
    /\ pc = "start"
    /\ imp = NoImp
    /\ sv = NoSave

\* main, line 88: store.load()?
Load ==
    /\ pc = "start"
    /\ LET r == load(fs.files, store.file_path) IN
        /\ manager' = r.mgr
        /\ last' = [op |-> "load", arg |-> store.file_path, res |-> r.res]
        /\ pc' = IF r.res.ok THEN "cmd" ELSE "exit_err"
    /\ UNCHANGED <<fs, imp, store, sv>>

HandleContext(action, name) ==
    /\ pc = "cmd"
    /\ LET r == handle_context(manager, action, name) IN
        /\ manager' = r.mgr
        /\ last' = [op |-> "context", arg |-> name, res |-> r.res]
        /\ pc' = after_command(r.res)
    /\ UNCHANGED <<fs, imp, store, sv>>

\* handle_import up to the merge loop; replace mode ends here
HandleImport(path, merge) ==
    /\ pc = "cmd"
    /\ LET r == import(fs.files, path) IN
        /\ last' = [op |-> "import", arg |-> path, res |-> r.res, merge |-> merge,
                    added_contexts |-> IF r.res.ok /\ ~merge
                                       THEN Cardinality(DOMAIN r.mgr.contexts) ELSE 0,
                    added_tasks |-> IF r.res.ok /\ ~merge THEN TaskCount(r.mgr) ELSE 0]
        /\ IF ~r.res.ok
           THEN /\ pc' = after_command(r.res)
                /\ UNCHANGED <<manager, imp>>
           ELSE IF merge
           THEN /\ pc' = "merge"
                /\ imp' = [on |-> TRUE, src |-> r.mgr.contexts,
                           pending |-> DOMAIN r.mgr.contexts, path |-> path,
                           added_contexts |-> 0, added_tasks |-> 0]
                /\ UNCHANGED manager
           ELSE /\ pc' = after_command(r.res)
                /\ manager' = replace_manager(manager, r.mgr)
                /\ UNCHANGED imp
    /\ UNCHANGED <<fs, store, sv>>

\* one iteration of the merge loop; the HashMap yields its entries in any order
MergeStep(k) ==
    /\ pc = "merge"
    /\ k \in imp.pending
    /\ LET r == merge_context(manager, k, imp.src[k])
           done == imp.pending = {k}
           ac == imp.added_contexts + (IF r.res.ok THEN 1 ELSE 0)
           at == imp.added_tasks + (IF r.res.ok THEN Len(imp.src[k].tasks) ELSE 0)
       IN
        /\ manager' = r.mgr
        /\ imp' = [imp EXCEPT !.pending = @ \ {k}, !.added_contexts = ac,
                              !.added_tasks = at]
        /\ last' = [op |-> "import", arg |-> imp.path, res |-> r.res, merge |-> TRUE,
                    added_contexts |-> ac, added_tasks |-> at,
                    from |-> k, stored |-> r.stored]
        /\ pc' = IF ~r.res.ok THEN after_command(r.res)
                 ELSE IF done THEN after_command(r.res) ELSE "merge"
    /\ UNCHANGED <<fs, store, sv>>

\* Store::export up to the creation of the export file
HandleExport(path, order) ==
    /\ pc = "cmd"
    /\ sv' = [on |-> TRUE, json |-> to_string_pretty(manager, order), path |-> path]
    /\ fs' = [files |-> write(fs.files, path, Partial(to_string_pretty(manager, order).doc)),
              dirs |-> create_dir_all(fs.dirs, parent(path))]
    /\ last' = [op |-> "export", arg |-> path, res |-> OkUnit]
    /\ pc' = "export_writing"
    /\ UNCHANGED <<manager, imp, store>>

\* std::fs::write of the export completes, handle_export returns Ok
ExportWrite ==
    /\ pc = "export_writing"
    /\ fs' = [fs EXCEPT !.files = write(@, sv.path, sv.json)]
    /\ pc' = after_command(OkUnit)
    /\ sv' = NoSave
    /\ UNCHANGED <<manager, last, imp, store>>

\* Store::save up to the temporary path
SaveBegin(order) ==
    /\ pc = "save"
    /\ sv' = [on |-> TRUE, json |-> to_string_pretty(manager, order),
              path |-> temp_path_of(store.file_path)]
    /\ fs' = [fs EXCEPT !.dirs = create_dir_all(@, parent(store.file_path))]
    /\ pc' = "save_write"
    /\ UNCHANGED <<manager, last, imp, store>>

\* std::fs::write creates or truncates the temporary file
SaveOpenTemp ==
    /\ pc = "save_write"
    /\ fs' = [fs EXCEPT !.files = write(@, sv.path, Partial(sv.json.doc))]
    /\ pc' = "save_writing"
    /\ UNCHANGED <<manager, last, imp, store, sv>>

\* std::fs::write has written every byte
SaveWriteTemp ==
    /\ pc = "save_writing"
    /\ fs' = [fs EXCEPT !.files = write(@, sv.path, sv.json)]
    /\ pc' = "save_rename"
    /\ UNCHANGED <<manager, last, imp, store, sv>>

\* std::fs::rename, then save returns Ok and main returns
SaveRename ==
    /\ pc = "save_rename"
    /\ fs' = [fs EXCEPT !.files = rename(@, sv.path, store.file_path)]
    /\ last' = [op |-> "save", arg |-> store.file_path, res |-> OkUnit]
    /\ pc' = "done"
    /\ UNCHANGED <<manager, imp, store, sv>>

\* an I/O error in write or rename: save returns Err, the files stay as they are
SaveIoError ==
    /\ pc \in {"save_write", "save_writing", "save_rename"}
    /\ last' = [op |-> "save", arg |-> store.file_path,
                res |-> Err("IoError", sv.path)]
    /\ pc' = "exit_err"
    /\ UNCHANGED <<manager, fs, imp, store, sv>>

\* the process stops
Crash ==
    /\ pc \in RunningPcs
    /\ last' = [op |-> "crash", arg |-> pc, res |-> OkUnit]
    /\ pc' = "crashed"
    /\ UNCHANGED <<manager, fs, imp, store, sv>>

NextMain ==
    \/ Load
    \/ \E a \in ContextActions, n \in MainNames : HandleContext(a, n)
    \/ \E merge \in BOOLEAN : HandleImport(ExtPath, merge)
    \/ \E k \in (IF imp.on THEN imp.pending ELSE {}) : MergeStep(k)
    \/ \E order \in (IF pc = "cmd" THEN Perms(DOMAIN manager.contexts) ELSE {}) :
          HandleExport(ExtPath, order)
    \/ ExportWrite
    \/ \E order \in (IF pc = "save" THEN Perms(DOMAIN manager.contexts) ELSE {}) :
          SaveBegin(order)
    \/ SaveOpenTemp
    \/ SaveWriteTemp
    \/ SaveRename
    \/ SaveIoError
    \/ Crash

SpecMain == InitMain /\ [][NextMain]_vars

(***************************************************************************)
(* Properties of the ContextManager calls                                  *)
(***************************************************************************)
ContextOps == {"create_context", "switch_context", "delete_context"}

\* C1: after any sequence of create_context, switch_context and
\* delete_context calls on a new manager, succeeding or failing, the contexts
\* map is non-empty and active_context is one of its keys.
C1_ManagerInvariant ==
    /\ DOMAIN manager.contexts # {}
    /\ manager.active_context \in DOMAIN manager.contexts

\* a delete_context has succeeded on a manager whose active context is not "default"
C1_Witness ==
    /\ last.op = "delete_context" /\ last.res.ok
    /\ manager.active_context # "default"
    /\ "default" \notin DOMAIN manager.contexts

\* C4: a failing create_context, switch_context or delete_context leaves the
\* contexts map (names and task lists) and active_context as they were.
C4_FailureLeavesManager ==
    [][(last'.op \in ContextOps /\ ~last'.res.ok) => manager' = manager]_vars

\* a create_context has failed on a name whose context holds a task
C4_Witness ==
    /\ last.op = "create_context" /\ ~last.res.ok
    /\ last.res.kind = "ContextAlreadyExists"
    /\ Len(manager.contexts[last.arg].tasks) > 0

\* C5: with exactly one context, delete_context on that context fails with
\* CannotDeleteLastContext whatever its name, and the context stays.
C5_LastContextKept ==
    [][(/\ last'.op = "delete_context"
        /\ Cardinality(DOMAIN manager.contexts) = 1
        /\ last'.arg \in DOMAIN manager.contexts)
       => (/\ last'.res = Err("CannotDeleteLastContext", "")
           /\ manager' = manager)]_vars

\* the sole context is not named "default" and its deletion was refused
C5_Witness ==
    /\ last.op = "delete_context"
    /\ last.res.kind = "CannotDeleteLastContext"
    /\ DOMAIN manager.contexts = {"work"}
    /\ last.arg = "work"

\* C6: delete_context on the active context returns an error and leaves the
\* set of contexts and active_context unchanged.
C6_ActiveContextKept ==
    [][(last'.op = "delete_context" /\ last'.arg = manager.active_context)
       => (/\ ~last'.res.ok
           /\ DOMAIN manager'.contexts = DOMAIN manager.contexts
           /\ manager'.active_context = manager.active_context)]_vars

\* the active context was one of several and its deletion was refused
C6_Witness ==
    /\ last.op = "delete_context" /\ ~last.res.ok
    /\ last.arg = manager.active_context
    /\ Cardinality(DOMAIN manager.contexts) >= 2

(***************************************************************************)
(* The resolver specification: the resolver applied to drawn task lists    *)
(***************************************************************************)
Alphabet == {"a", "b"}

RECURSIVE Strs(_)
Strs(n) ==
    IF n = 0 THEN {""}
    ELSE LET S == Strs(n - 1) IN S \cup {s \o c : s \in S, c \in Alphabet}

Ids == Strs(MaxIdLen)

TaskWithId(id) == Task_new(id, "t1", "d1", "ShortTerm", "Medium")

IdLists == UNION {[1..n -> Ids] : n \in 0..MaxLen}

InitResolve ==
    /\ \E ids \in IdLists :
          manager = [contexts |->
                        [n \in {"default", "other"} |->
                            IF n = "default"
                            THEN [name |-> n,
                                  tasks |-> [i \in 1..Len(ids) |-> TaskWithId(ids[i])]]
                            ELSE [name |-> n, tasks |-> <<TaskWithId("a")>>]],
                     active_context |-> "default"]
    /\ last = NoCall
    /\ fs = NoFs
    /\ pc = "resolve"
    /\ imp = NoImp
    /\ store = NoStore
    /\ sv = NoSave

ResolveId(p) ==
    /\ pc = "resolve"
    /\ last' = [op |-> "find_task_id_by_partial", arg |-> p,
                res |-> find_task_id_by_partial(active_context(manager), p)]
    /\ UNCHANGED <<manager, fs, pc, imp, store, sv>>

ResolveTask(p) ==
    /\ pc = "resolve"
    /\ LET r == find_task_by_partial_id(active_context(manager), p) IN
          last' = [op |-> "find_task_by_partial_id", arg |-> p,
                   res |-> r.res, idx |-> r.idx]
    /\ UNCHANGED <<manager, fs, pc, imp, store, sv>>

NextResolve ==
    \/ \E p \in Ids : ResolveId(p)
    \/ \E p \in Ids : ResolveTask(p)

SpecResolve == InitResolve /\ [][NextResolve]_vars

(***************************************************************************)
(* Properties of the store and of the import command                       *)
(***************************************************************************)
IsPartial(f) == f.kind = "file" /\ ~f.complete

SavePcs == {"save", "save_write", "save_writing", "save_rename"}

\* C2: wherever the process running save stops, the target file is the
\* previous file (or still absent) or the complete new serialization, never a
\* partial write: every step of save, the stop included, leaves the target
\* file and so the result of a following load as they were, except the
\* rename, which installs the complete new text.
C2_Step ==
    pc \in SavePcs =>
        LET t == store.file_path IN
        /\ ~IsPartial(fs'.files[t])
        /\ \/ /\ fs'.files[t] = fs.files[t]
              /\ load(fs'.files, t) = load(fs.files, t)
           \/ /\ pc = "save_rename" /\ pc' = "done"
              /\ fs'.files[t] = sv.json
              /\ sv.json.complete

C2_AtomicSave == [][C2_Step]_vars

\* the process stopped between the write of the temporary file and the
\* rename, and the previous file is still there and loads
C2_Witness ==
    /\ pc = "crashed" /\ last.arg = "save_rename"
    /\ fs.files[sv.path] = sv.json
    /\ fs.files[store.file_path].kind = "file"
    /\ fs.files[store.file_path] # sv.json
    /\ load(fs.files, store.file_path).res.ok
    /\ load(fs.files, store.file_path).mgr # manager

SameManager(a, b) ==
    /\ a.active_context = b.active_context
    /\ DOMAIN a.contexts = DOMAIN b.contexts
    /\ \A n \in DOMAIN a.contexts :
          /\ Len(a.contexts[n].tasks) = Len(b.contexts[n].tasks)
          /\ \A i \in 1..Len(a.contexts[n].tasks) :
                LET x == a.contexts[n].tasks[i]
                    y == b.contexts[n].tasks[i]
                IN /\ x.id = y.id /\ x.description = y.description
                   /\ x.time_horizon = y.time_horizon /\ x.priority = y.priority
                   /\ x.completed = y.completed /\ x.created_at = y.created_at

\* C3: load after save, and import after export, return a manager with the
\* same active_context, the same context names and, per context, the same
\* tasks in the same order with every field equal.
C3_RoundTrip ==
    /\ (pc = "done" /\ last.op = "save") =>
          LET r == load(fs.files, store.file_path)
          IN r.res.ok /\ SameManager(r.mgr, manager)
    /\ (last.op = "export" /\ pc # "export_writing") =>
          LET r == import(fs.files, ExtPath)
          IN r.res.ok /\ SameManager(r.mgr, manager)

\* a manager of two contexts, one stored under a key that is not its name and
\* holding a completed task, has been saved
C3_Witness ==
    /\ pc = "done" /\ last.op = "save"
    /\ Cardinality(DOMAIN manager.contexts) = 2
    /\ \E n \in DOMAIN manager.contexts :
          \E i \in 1..Len(manager.contexts[n].tasks) : manager.contexts[n].tasks[i].completed
    /\ \E n \in DOMAIN manager.contexts : manager.contexts[n].name # n

ImportedName(n, j) ==
    IF j = 1 THEN n \o "-imported" ELSE n \o "-imported-" \o ToString(j)

\* C8: in a merge, an imported context whose name N is taken in the live
\* manager is stored in a new context "N-imported" if that name is free, else
\* "N-imported-k" for the smallest k >= 2 that is free, with all its tasks in
\* their order.
C8_Step ==
    (/\ pc = "merge" /\ last'.op = "import"
     /\ last'.from \in DOMAIN manager.contexts)
       => LET keys == DOMAIN manager.contexts
              n == last'.from
          IN \E j \in 1..(Cardinality(keys) + 1) :
                /\ ImportedName(n, j) \notin keys
                /\ \A i \in 1..(j - 1) : ImportedName(n, i) \in keys
                /\ DOMAIN manager'.contexts = keys \cup {ImportedName(n, j)}
                /\ manager'.contexts[ImportedName(n, j)].tasks = imp.src[n].tasks

C8_MergeRename == [][C8_Step]_vars

\* "work" was imported into a manager holding "work", "work-imported" and
\* "work-imported-2"
C8_Witness ==
    /\ last.op = "import" /\ last.merge /\ last.res.ok /\ pc = "save"
    /\ last.stored = "work-imported-3"
    /\ manager.contexts["work-imported-3"].tasks = <<T2, T3>>

\* C9: a merge leaves every context already in the live manager as it was
\* (key, name, tasks) and leaves active_context unchanged.
C9_Step ==
    (pc \in {"cmd", "merge"} /\ last'.op = "import" /\ last'.merge)
       => /\ \A n \in DOMAIN manager.contexts :
                /\ n \in DOMAIN manager'.contexts
                /\ manager'.contexts[n] = manager.contexts[n]
          /\ manager'.active_context = manager.active_context

C9_MergeKeepsLive == [][C9_Step]_vars

\* a merge of two colliding contexts has finished next to the live "work"
C9_Witness ==
    /\ pc = "save" /\ last.op = "import" /\ last.merge
    /\ last.added_contexts = 2
    /\ "work-imported-imported" \in DOMAIN manager.contexts
    /\ manager.contexts["work"].tasks = <<T1>>
    /\ manager.active_context = "default"

\* the import file is missing, is not a JSON document, or names an active
\* context that is not among its contexts
BadImportFile(f) ==
    \/ f.kind = "absent"
    \/ ~f.complete
    \/ f.doc.t # "obj"
    \/ LET ac == Field(f.doc, "active_context")
           cs == Field(f.doc, "contexts")
       IN \A i \in 1..Len(cs.v) : cs.v[i][1] # ac.v

\* C10: when import fails (missing file, malformed JSON, active_context not
\* among the contexts) the import command, merge or replace, leaves the live
\* manager unchanged, and main exits without rewriting the store file.
C10_Step ==
    /\ (pc = "cmd" /\ last'.op = "import")
          => /\ BadImportFile(fs.files[last'.arg]) => ~last'.res.ok
             /\ fs.files[last'.arg].kind = "absent" => last'.res.kind = "IoError"
             /\ ~last'.res.ok => /\ manager' = manager
                                 /\ fs' = fs
                                 /\ pc' = "exit_err"
    /\ pc = "exit_err" => fs' = fs

C10_FailedImport == [][C10_Step]_vars

\* a merge import of a missing file has failed on a loaded store
C10_Witness ==
    /\ pc = "exit_err" /\ last.op = "import" /\ last.merge
    /\ last.res.kind = "IoError"
    /\ Cardinality(DOMAIN manager.contexts) = 3
    /\ fs.files[store.file_path].kind = "file"

(***************************************************************************)
(* Properties of the resolver                                              *)
(***************************************************************************)
ActiveIds == TaskIdSeq(manager.contexts[manager.active_context])

MatchIdx(p) ==
    {i \in 1..Len(ActiveIds) :
        /\ Len(p) <= Len(ActiveIds[i])
        /\ \A k \in 1..Len(p) : SubSeq(ActiveIds[i], k, k) = SubSeq(p, k, k)}

\* the ids at the positions of I, in task order, separated by ", "
RECURSIVE Listed(_)
Listed(I) ==
    IF I = {} THEN ""
    ELSE LET hi == CHOOSE i \in I : \A j \in I : j <= i
         IN IF I = {hi} THEN ActiveIds[hi]
            ELSE Listed(I \ {hi}) \o ", " \o ActiveIds[hi]

\* C7: resolution looks at the tasks of the active context only; no task id
\* starting with p gives TaskNotFound(p), exactly one gives that full id, two
\* or more give a TaskNotFound whose message lists every matching id in task
\* order joined by ", ".
C7_PartialIdResolution ==
    last.op \in {"find_task_id_by_partial", "find_task_by_partial_id"} =>
        LET p == last.arg
            M == MatchIdx(p)
        IN /\ M = {} => last.res = Err("TaskNotFound", p)
           /\ Cardinality(M) = 1 => last.res = Ok(ActiveIds[CHOOSE i \in M : TRUE])
           /\ Cardinality(M) >= 2 =>
                 last.res = Err("TaskNotFound",
                                "Ambiguous ID '" \o p
                                    \o "' matches multiple tasks: " \o Listed(M))
           /\ (last.op = "find_task_by_partial_id" /\ Cardinality(M) = 1)
                 => last.idx \in M

\* a prefix matched three tasks of the active context, two of them distinct
C7_Witness ==
    /\ last.op = "find_task_id_by_partial"
    /\ last.arg = "a"
    /\ ActiveIds = <<"ab", "b", "aa">>
    /\ last.res.val = "Ambiguous ID 'a' matches multiple tasks: ab, aa"

(***************************************************************************)
(* Properties of load and of the import modes                              *)
(***************************************************************************)
\* a well-formed store document whose active_context is none of its keys
InvalidActiveFile(f) ==
    /\ f.kind = "file" /\ f.complete
    /\ StorageData_from_json(f.doc).ok
    /\ \A i \in 1..Len(Field(f.doc, "contexts").v) :
          Field(f.doc, "contexts").v[i][1] # Field(f.doc, "active_context").v

\* C11: load and import of a well-formed JSON file whose active_context is
\* not a key of contexts fail with InvalidDataFormat, the message naming the
\* bad value; no manager is returned.
C11_Step ==
    (/\ last'.op \in {"load", "import"}
     /\ pc \in {"start", "cmd"}
     /\ InvalidActiveFile(fs.files[last'.arg]))
       => /\ last'.res = Err("InvalidDataFormat",
                             "Active context '"
                                 \o Field(fs.files[last'.arg].doc, "active_context").v
                                 \o "' does not exist in contexts")
          /\ pc' = "exit_err"
          /\ last'.op = "import" => manager' = manager
          /\ last'.op = "load" => manager' = NoManager

C11_InvalidActive == [][C11_Step]_vars

\* load has refused a store file whose active_context is "gone"
C11_Witness ==
    /\ pc = "exit_err" /\ last.op = "load"
    /\ last.res.kind = "InvalidDataFormat"
    /\ last.res.val = "Active context 'gone' does not exist in contexts"

\* the store file exists and is not a document load accepts
BadStoreFile(f) == f.kind = "file" /\ BadImportFile(f)

\* C12: load on a missing store file returns Ok with a fresh default manager
\* (one empty context "default", active) and creates no file; no other load
\* condition is recovered: a file that is there and is malformed or invalid
\* makes load fail.
C12_Step ==
    (pc = "start" /\ last'.op = "load")
       => /\ ~exists(fs.files, store.file_path)
                => /\ last'.res = OkUnit
                   /\ DOMAIN manager'.contexts = {"default"}
                   /\ manager'.contexts["default"] = [name |-> "default", tasks |-> <<>>]
                   /\ manager'.active_context = "default"
                   /\ fs' = fs
                   /\ pc' = "cmd"
          /\ BadStoreFile(fs.files[store.file_path])
                => /\ ~last'.res.ok
                   /\ pc' = "exit_err"

C12_LoadMissing == [][C12_Step]_vars

\* the first run: no store file, no directory, and load gave the default manager
C12_Witness ==
    /\ pc = "cmd" /\ last.op = "load" /\ last.res.ok
    /\ store.file_path = "rust-todo/data.json"
    /\ fs.files[store.file_path].kind = "absent"
    /\ "rust-todo" \notin fs.dirs
    /\ manager = ContextManager_new

\* the keys of the contexts object of a store document
DocKeys(doc) == {Field(doc, "contexts").v[i][1] : i \in 1..Len(Field(doc, "contexts").v)}

\* C13: after a successful replace-mode import the live manager is the
\* imported one: its contexts are exactly those of the file with their tasks,
\* its active_context is the file's, and nothing else of the previous live
\* manager is left.
C13_Step ==
    (pc = "cmd" /\ last'.op = "import" /\ ~last'.merge /\ last'.res.ok)
       => LET doc == fs.files[last'.arg].doc
              data == StorageData_from_json(doc).val
          IN /\ manager'.contexts = data.contexts
             /\ manager'.active_context = data.active_context
             /\ DOMAIN manager'.contexts = DocKeys(doc)
             /\ manager'.active_context = Field(doc, "active_context").v
             /\ \A n \in DOMAIN manager.contexts \ DocKeys(doc) :
                   n \notin DOMAIN manager'.contexts
             /\ \A n \in DOMAIN manager.contexts \cap DocKeys(doc) :
                   manager'.contexts[n] = data.contexts[n]
             /\ last'.added_contexts = Cardinality(DocKeys(doc))
             /\ pc' = "save"

C13_ReplaceImport == [][C13_Step]_vars

\* a replace-mode import over a live manager of three contexts left only "work"
C13_Witness ==
    /\ pc = "save" /\ last.op = "import" /\ ~last.merge /\ last.res.ok
    /\ DOMAIN load(fs.files, store.file_path).mgr.contexts
          = {"work", "work-imported", "work-imported-2"}
    /\ DOMAIN manager.contexts = {"work"}
    /\ manager.contexts["work"].tasks = <<T2, T3>>
    /\ manager.active_context = "work"

\* C14: in a merge, an imported context whose name is free in the live
\* manager when the loop reaches it is inserted under its own name, tasks
\* unchanged; when the merge ends the live manager has as many contexts as it
\* had plus the imported ones, and the totals reported are the number of
\* imported contexts and the number of imported tasks.
C14_Step ==
    (pc = "merge" /\ last'.op = "import" /\ last'.merge)
       => LET n == last'.from
              before == load(fs.files, store.file_path).mgr
          IN /\ n \notin DOMAIN manager.contexts
                   => /\ DOMAIN manager'.contexts = DOMAIN manager.contexts \cup {n}
                      /\ manager'.contexts[n] = imp.src[n]
                      /\ last'.stored = n
             /\ pc' # "merge"
                   => /\ pc' = "save"
                      /\ Cardinality(DOMAIN manager'.contexts)
                            = Cardinality(DOMAIN before.contexts)
                                 + Cardinality(DOMAIN imp.src)
                      /\ last'.added_contexts = Cardinality(DOMAIN imp.src)
                      /\ last'.added_tasks
                            = TaskCount([contexts |-> imp.src, active_context |-> ""])

C14_MergeFreeName == [][C14_Step]_vars

\* a merge into the default manager stored both imported contexts as named
C14_Witness ==
    /\ pc = "save" /\ last.op = "import" /\ last.merge /\ last.res.ok
    /\ DOMAIN manager.contexts = {"default", "work", "work-imported"}
    /\ manager.contexts["work"].tasks = <<T2>>
    /\ manager.contexts["work-imported"].tasks = <<T3>>
    /\ last.added_contexts = 2 /\ last.added_tasks = 2

(***************************************************************************)
(* Frame properties of create_context and switch_context                   *)
(***************************************************************************)
\* C17: create_context(name) with a name not present succeeds, adds exactly
\* one context, named name and with no task, and leaves active_context and
\* every other context as they were; with a name present it fails with
\* ContextAlreadyExists(name).
C17_Step ==
    last'.op = "create_context"
       => LET name == last'.arg IN
          IF name \notin DOMAIN manager.contexts
          THEN /\ last'.res = OkUnit
               /\ DOMAIN manager'.contexts = DOMAIN manager.contexts \cup {name}
               /\ manager'.contexts[name] = [name |-> name, tasks |-> <<>>]
               /\ \A n \in DOMAIN manager.contexts :
                     manager'.contexts[n] = manager.contexts[n]
               /\ manager'.active_context = manager.active_context
          ELSE last'.res = Err("ContextAlreadyExists", name)

C17_CreateContext == [][C17_Step]_vars

\* a context has been created next to an active context that holds a task
C17_Witness ==
    /\ last.op = "create_context" /\ last.res.ok
    /\ manager.active_context # last.arg
    /\ Len(manager.contexts[manager.active_context].tasks) > 0
    /\ manager.contexts[last.arg].tasks = <<>>

\* C18: switch_context(name) with a name present sets active_context to name
\* and changes no context or task, so that active_context() then returns the
\* context stored under name with the tasks it had; with a name absent it
\* fails with ContextNotFound(name).
C18_Step ==
    last'.op = "switch_context"
       => LET name == last'.arg IN
          IF name \in DOMAIN manager.contexts
          THEN /\ last'.res = OkUnit
               /\ manager'.active_context = name
               /\ manager'.contexts = manager.contexts
               /\ active_context(manager') = manager.contexts[name]
          ELSE last'.res = Err("ContextNotFound", name)

C18_SwitchContext == [][C18_Step]_vars

\* a switch has made active a context, other than "default", that holds a task
C18_Witness ==
    /\ last.op = "switch_context" /\ last.res.ok
    /\ last.arg # "default"
    /\ manager.active_context = last.arg
    /\ Len(active_context(manager).tasks) > 0

(***************************************************************************)
(* The context specification: the read-only views and remove_task of one   *)
(* Context, on drawn task lists                                            *)
(***************************************************************************)
\* one task per (time_horizon, priority), and two more that repeat a key
\* under another id
TaskUniverse ==
    {Task_new("aa", "t1", "d1", h, p) : h \in TimeHorizon, p \in Priority}
       \cup {Task_new("ab", "t1", "d1", "ShortTerm", "High"),
             Task_new("ab", "t1", "d1", "MidTerm", "Low")}

\* the task list of test_sorted_tasks
SortExample ==
    << Task_new("aa", "t1", "d1", "LongTerm", "Low"),
       Task_new("aa", "t1", "d1", "ShortTerm", "Medium"),
       Task_new("aa", "t1", "d1", "MidTerm", "High"),
       Task_new("aa", "t1", "d1", "ShortTerm", "High") >>

TaskLists ==
    UNION {[1..k -> TaskUniverse] : k \in 0..MaxSortLen} \cup {SortExample}

InitContext ==
    /\ \E tasks \in TaskLists :
          manager = [contexts |-> [n \in {"default"} |-> Ctx("default", tasks)],
                     active_context |-> "default"]
    /\ last = NoCall
    /\ fs = NoFs
    /\ pc = "ctx"
    /\ imp = NoImp
    /\ store = NoStore
    /\ sv = NoSave

SortedTasks ==
    /\ pc = "ctx"
    /\ last' = [op |-> "sorted_tasks", arg |-> "", res |-> OkUnit,
                out |-> sorted_tasks(active_context(manager))]
    /\ UNCHANGED <<manager, fs, pc, imp, store, sv>>

TasksByHorizon(horizon) ==
    /\ pc = "ctx"
    /\ last' = [op |-> "tasks_by_horizon", arg |-> horizon, res |-> OkUnit,
                out |-> tasks_by_horizon(active_context(manager), horizon)]
    /\ UNCHANGED <<manager, fs, pc, imp, store, sv>>

RemoveTask(id) ==
    /\ pc = "ctx"
    /\ LET r == remove_task(active_context(manager), id) IN
        /\ manager' = [manager EXCEPT !.contexts[manager.active_context] = r.ctx]
        /\ last' = [op |-> "remove_task", arg |-> id, res |-> r.res, idx |-> r.idx]
    /\ UNCHANGED <<fs, pc, imp, store, sv>>

NextContext ==
    \/ SortedTasks
    \/ \E horizon \in TimeHorizon : TasksByHorizon(horizon)
    \/ \E id \in Uuids : RemoveTask(id)

SpecContext == InitContext /\ [][NextContext]_vars

\* the places of the two enums in the order the result is to follow
HorizonPlace(h) == CHOOSE i \in 1..3 : <<"ShortTerm", "MidTerm", "LongTerm">>[i] = h
PriorityPlace(p) == CHOOSE i \in 1..3 : <<"High", "Medium", "Low">>[i] = p

ActiveTasks == active_context(manager).tasks

\* C15: sorted_tasks returns a permutation of the context's tasks ordered by
\* time_horizon ascending (ShortTerm, MidTerm, LongTerm) and, within a
\* horizon, by priority descending (High, Medium, Low); the context's own
\* task order is unchanged.
C15_Step ==
    last'.op = "sorted_tasks"
       => LET out == last'.out
              n == Len(ActiveTasks)
          IN /\ Len(out) = n
             /\ {out[i] : i \in 1..n} = 1..n
             /\ \A i, j \in 1..n :
                   i < j =>
                      LET a == ActiveTasks[out[i]]
                          b == ActiveTasks[out[j]]
                      IN /\ HorizonPlace(a.time_horizon) <= HorizonPlace(b.time_horizon)
                         /\ a.time_horizon = b.time_horizon
                               => PriorityPlace(a.priority) <= PriorityPlace(b.priority)
             /\ manager' = manager

C15_SortedTasks == [][C15_Step]_vars

\* the list of test_sorted_tasks has been sorted: (Short,High), (Short,Medium),
\* (Mid,High), (Long,Low)
C15_Witness ==
    /\ last.op = "sorted_tasks"
    /\ ActiveTasks = SortExample
    /\ last.out = <<4, 2, 3, 1>>

\* C16: sorted_tasks is stable: two tasks of the same time_horizon and the
\* same priority come out in the order they have in the context.
C16_Step ==
    last'.op = "sorted_tasks"
       => \A i, j \in 1..Len(last'.out) :
             (/\ i < j
              /\ ActiveTasks[last'.out[i]].time_horizon = ActiveTasks[last'.out[j]].time_horizon
              /\ ActiveTasks[last'.out[i]].priority = ActiveTasks[last'.out[j]].priority)
                => last'.out[i] < last'.out[j]

C16_SortStable == [][C16_Step]_vars

\* two tasks of equal key and different id were moved behind a later task
\* and kept their order
C16_Witness ==
    /\ last.op = "sorted_tasks"
    /\ Len(ActiveTasks) = 3
    /\ ActiveTasks[1].time_horizon = ActiveTasks[2].time_horizon
    /\ ActiveTasks[1].priority = ActiveTasks[2].priority
    /\ ActiveTasks[1].id # ActiveTasks[2].id
    /\ last.out = <<3, 1, 2>>

\* C19: remove_task(id) removes and returns the first task whose id is id,
\* the other tasks keeping their order; with no such task it fails with
\* TaskNotFound(id) and the tasks are unchanged.
C19_Step ==
    last'.op = "remove_task"
       => LET id == last'.arg
              tasks == ActiveTasks
              after == active_context(manager').tasks
              I == {i \in 1..Len(tasks) : tasks[i].id = id}
          IN IF I = {}
             THEN /\ last'.res = Err("TaskNotFound", id)
                  /\ manager' = manager
             ELSE LET k == CHOOSE i \in I : \A j \in I : i <= j IN
                  /\ last'.res = Ok(tasks[k])
                  /\ Len(after) = Len(tasks) - 1
                  /\ \A i \in 1..Len(after) :
                        after[i] = IF i < k THEN tasks[i] ELSE tasks[i + 1]
                  /\ manager'.active_context = manager.active_context
                  /\ DOMAIN manager'.contexts = DOMAIN manager.contexts

C19_RemoveTask == [][C19_Step]_vars

\* the first of two tasks of the same id was removed from the head of a list
\* of three distinct tasks; the other two are left in order
C19_Witness ==
    /\ last.op = "remove_task" /\ last.res.ok
    /\ last.idx = 1
    /\ Len(ActiveTasks) = 2
    /\ ActiveTasks[2].id = last.arg
    /\ ActiveTasks[1].id # last.arg
    /\ last.res.val # ActiveTasks[2]

\* a remove_task has failed on a list that holds tasks
C19_WitnessNotFound ==
    /\ last.op = "remove_task" /\ last.res.kind = "TaskNotFound"
    /\ Len(ActiveTasks) > 0

\* C20: tasks_by_horizon(h) returns exactly the tasks of the context whose
\* time_horizon is h, each once, in insertion order, and changes nothing.
C20_Step ==
    last'.op = "tasks_by_horizon"
       => LET out == last'.out
              h == last'.arg
          IN /\ {out[i] : i \in 1..Len(out)}
                   = {i \in 1..Len(ActiveTasks) : ActiveTasks[i].time_horizon = h}
             /\ \A i, j \in 1..Len(out) : i < j => out[i] < out[j]
             /\ manager' = manager

C20_TasksByHorizon == [][C20_Step]_vars

\* the first and the third of three tasks were returned, the second being of
\* another horizon
C20_Witness ==
    /\ last.op = "tasks_by_horizon"
    /\ Len(ActiveTasks) = 3
    /\ ActiveTasks[2].time_horizon # last.arg
    /\ ActiveTasks[1] # ActiveTasks[3]
    /\ last.out = <<1, 3>>

(***************************************************************************)
(* The task specification: mark_complete and update on one task made by    *)
(* Task::new                                                               *)
(***************************************************************************)
NewDescs == {"d1", "d2"}

DescArgs == {None} \cup {Some(d) : d \in NewDescs}
HorizonOpts == {None} \cup {Some(h) : h \in TimeHorizon}
PriorityOpts == {None} \cup {Some(p) : p \in Priority}

InitTask ==
    /\ \E h \in TimeHorizon, p \in Priority :
          manager = [contexts |-> [n \in {"default"} |->
                                      Ctx("default", <<Task_new("aa", "t1", "d1", h, p)>>)],
                     active_context |-> "default"]
    /\ last = NoCall
    /\ fs = NoFs
    /\ pc = "task"
    /\ imp = NoImp
    /\ store = NoStore
    /\ sv = NoSave

\* the task the two methods are called on
TheTask == active_context(manager).tasks[1]

MarkComplete ==
    /\ pc = "task"
    /\ manager' = [manager EXCEPT !.contexts["default"].tasks[1] = mark_complete(@)]
    /\ last' = [op |-> "mark_complete", arg |-> "", res |-> OkUnit, before |-> TheTask]
    /\ UNCHANGED <<fs, pc, imp, store, sv>>

Update(description, time_horizon, priority) ==
    /\ pc = "task"
    /\ manager' = [manager EXCEPT !.contexts["default"].tasks[1] =
                                     update(@, description, time_horizon, priority)]
    /\ last' = [op |-> "update", arg |-> <<description, time_horizon, priority>>,
                res |-> OkUnit, before |-> TheTask]
    /\ UNCHANGED <<fs, pc, imp, store, sv>>

NextTask ==
    \/ MarkComplete
    \/ \E d \in DescArgs, h \in HorizonOpts, p \in PriorityOpts : Update(d, h, p)

SpecTask == InitTask /\ [][NextTask]_vars

\* C21: update replaces description, time_horizon and priority exactly for
\* the arguments that are present and leaves the field of an absent argument
\* as it was; id, created_at and completed are never changed, so an update
\* with every argument absent leaves the task as it was.
C21_Step ==
    last'.op = "update"
       => LET d == last'.arg[1]
              h == last'.arg[2]
              p == last'.arg[3]
              t == TheTask
              u == TheTask'
          IN /\ d.some => u.description = d.val
             /\ ~d.some => u.description = t.description
             /\ h.some => u.time_horizon = h.val
             /\ ~h.some => u.time_horizon = t.time_horizon
             /\ p.some => u.priority = p.val
             /\ ~p.some => u.priority = t.priority
             /\ u.id = t.id /\ u.created_at = t.created_at /\ u.completed = t.completed
             /\ (~d.some /\ ~h.some /\ ~p.some) => u = t

C21_UpdateFrame == [][C21_Step]_vars

\* a completed task was given a new description only
C21_Witness ==
    /\ last.op = "update"
    /\ last.arg = <<Some("d2"), None, None>>
    /\ last.before.completed /\ TheTask.completed
    /\ last.before.description = "d1" /\ TheTask.description = "d2"
    /\ TheTask.time_horizon = last.before.time_horizon
    /\ TheTask.priority = last.before.priority

\* an update with no argument was called on a completed task
C21_WitnessNoChange ==
    /\ last.op = "update" /\ last.arg = <<None, None, None>>
    /\ TheTask.completed /\ TheTask = last.before

\* C22: completed is false at creation and one-way: mark_complete sets it and
\* changes no other field, a second mark_complete changes nothing, and no
\* mark_complete or update ever takes the flag from true to false.
C22_Step ==
    /\ last'.op = "mark_complete" => TheTask' = [TheTask EXCEPT !.completed = TRUE]
    /\ (last'.op = "mark_complete" /\ TheTask.completed) => TheTask' = TheTask
    /\ TheTask.completed => TheTask'.completed

C22_CompletedOneWay ==
    /\ last = NoCall => ~TheTask.completed
    /\ [][C22_Step]_vars

\* mark_complete was called on a task already complete, after an update
C22_Witness ==
    /\ last.op = "mark_complete"
    /\ last.before.completed /\ TheTask.completed
    /\ TheTask.description = "d2"

(***************************************************************************)
(* The task-command specification: add, complete, edit, delete and the     *)
(* context commands on one manager, from ContextManager::new()             *)
(***************************************************************************)
CmdNames == {"default", "work"}
CmdIds == {"aa", "ab"}
CmdPrefixes == {"a", "aa", "b"}
CmdHorizons == {"short", "bogus"}
EditDescs == {None, Some("d2")}
EditHorizons == {None, Some("long"), Some("bogus")}
EditPriorities == {None, Some("zzz")}

HandleComplete(id) ==
    /\ pc = "cmd"
    /\ LET r == handle_complete(manager, id) IN
        /\ manager' = r.mgr
        /\ last' = [op |-> "complete", arg |-> id, res |-> r.res, idx |-> r.idx]
    /\ UNCHANGED <<fs, pc, imp, store, sv>>

HandleEdit(id, description, horizon, priority) ==
    /\ pc = "cmd"
    /\ LET r == handle_edit(manager, id, description, horizon, priority) IN
        /\ manager' = r.mgr
        /\ last' = [op |-> "edit", arg |-> id, res |-> r.res, idx |-> r.idx,
                    description |-> description, horizon |-> horizon,
                    priority |-> priority]
    /\ UNCHANGED <<fs, pc, imp, store, sv>>

HandleDelete(id) ==
    /\ pc = "cmd"
    /\ LET r == handle_delete(manager, id) IN
        /\ manager' = r.mgr
        /\ last' = [op |-> "delete", arg |-> id, res |-> r.res, idx |-> r.idx]
    /\ UNCHANGED <<fs, pc, imp, store, sv>>

NextCmd ==
    \/ \E name \in CmdNames : CreateContext(name)
    \/ \E name \in CmdNames : SwitchContext(name)
    \/ \E name \in CmdNames : DeleteContext(name)
    \/ \E id \in CmdIds, h \in CmdHorizons : HandleAdd(id, "t1", "d1", h, "h")
    \/ \E id \in CmdPrefixes : HandleComplete(id)
    \/ \E id \in CmdPrefixes, d \in EditDescs, h \in EditHorizons, p \in EditPriorities :
          HandleEdit(id, d, h, p)
    \/ \E id \in CmdPrefixes : HandleDelete(id)

SpecCmd == Init /\ [][NextCmd]_vars

\* C23: with Task::new returning an id no task of the manager has, the task
\* ids within each context are pairwise distinct in every state reached from
\* a default manager by add, complete, edit, delete and context commands.
C23_UniqueIds ==
    \A n \in DOMAIN manager.contexts :
       \A i, j \in 1..Len(manager.contexts[n].tasks) :
          i # j => manager.contexts[n].tasks[i].id # manager.contexts[n].tasks[j].id

\* two tasks share a context after one of them was edited
C23_Witness ==
    /\ last.op = "edit" /\ last.res.ok
    /\ Len(ActiveTasks) = 2
    /\ ActiveTasks[1].id # ActiveTasks[2].id
    /\ DOMAIN manager.contexts = CmdNames

\* the tasks of ts without the one at position k
Without(ts, k) == [i \in 1..(Len(ts) - 1) |-> IF i < k THEN ts[i] ELSE ts[i + 1]]

\* C29: a successful complete, edit or delete changes only the one task the
\* prefix resolves to in the active context: every other context, the other
\* tasks of the active context and their order, the set of contexts and
\* active_context are as before; a successful add appends the new task to
\* the active context only.
C29_Step ==
    (last'.op \in {"complete", "edit", "delete", "add"} /\ last'.res.ok)
       => LET a == manager.active_context
              ts == manager.contexts[a].tasks
              us == manager'.contexts[a].tasks
              K == {i \in 1..Len(ts) : starts_with(ts[i].id, last'.arg)}
          IN /\ manager'.active_context = a
             /\ DOMAIN manager'.contexts = DOMAIN manager.contexts
             /\ \A n \in DOMAIN manager.contexts \ {a} :
                   manager'.contexts[n] = manager.contexts[n]
             /\ manager'.contexts[a].name = manager.contexts[a].name
             /\ last'.op \in {"complete", "edit", "delete"}
                   => \E k \in K :
                         /\ K = {k} \/ ts[k].id = last'.arg
                         /\ last'.op = "delete" => us = Without(ts, k)
                         /\ last'.op # "delete"
                               => /\ Len(us) = Len(ts)
                                  /\ \A i \in 1..Len(ts) : i # k => us[i] = ts[i]
                                  /\ us[k].id = ts[k].id
                         /\ last'.op = "complete" => us[k] = [ts[k] EXCEPT !.completed = TRUE]
             /\ last'.op = "add"
                   => /\ Len(us) = Len(ts) + 1
                      /\ SubSeq(us, 1, Len(ts)) = ts

C29_CommandFrame == [][C29_Step]_vars

\* the first of two tasks of the active context "work" was completed; the
\* second task is not, and "default" is still there
C29_Witness ==
    /\ last.op = "complete" /\ last.res.ok /\ last.idx = 1
    /\ manager.active_context = "work"
    /\ Len(ActiveTasks) = 2
    /\ ActiveTasks[1].completed /\ ~ActiveTasks[2].completed
    /\ "default" \in DOMAIN manager.contexts

(***************************************************************************)
(* The constructor and the order of the checks of delete_context           *)
(***************************************************************************)
\* C26: ContextManager::new() (Default::default() calls it) yields exactly
\* one context, keyed and named "default", with no task, and active_context
\* "default"; the map is not empty and holds the active context.
C26_NewManager ==
    last = NoCall
       => /\ DOMAIN manager.contexts = {"default"}
          /\ manager.contexts["default"].name = "default"
          /\ manager.contexts["default"].tasks = <<>>
          /\ manager.active_context = "default"
          /\ manager.active_context \in DOMAIN manager.contexts

\* the manager right after construction, before any call
C26_Witness ==
    /\ last = NoCall /\ pc = "cmd"
    /\ Cardinality(DOMAIN manager.contexts) = 1
    /\ active_context(manager) = Context_new("default")

\* the error delete_context returns for the active context
ActiveContextError(name) ==
    Err("ContextNotFound",
        "Cannot delete active context '" \o name \o "'. Switch to another context first.")

\* C28: delete_context checks absent name, then last context, then active
\* context: an absent name gives ContextNotFound(name) even with one context,
\* the sole context gives CannotDeleteLastContext though it is the active
\* one, and the active-context error comes only with two contexts or more.
C28_Step ==
    last'.op = "delete_context"
       => LET name == last'.arg
              n == Cardinality(DOMAIN manager.contexts)
          IN /\ name \notin DOMAIN manager.contexts
                   => last'.res = Err("ContextNotFound", name)
             /\ (name \in DOMAIN manager.contexts /\ n = 1)
                   => /\ name = manager.active_context
                      /\ last'.res = Err("CannotDeleteLastContext", "")
             /\ last'.res = ActiveContextError(name)
                   => /\ n >= 2
                      /\ name = manager.active_context

C28_DeleteCheckOrder == [][C28_Step]_vars

\* an absent name was refused as not found on a manager of one context
C28_Witness ==
    /\ last.op = "delete_context"
    /\ last.res = Err("ContextNotFound", last.arg)
    /\ last.arg \notin DOMAIN manager.contexts
    /\ Cardinality(DOMAIN manager.contexts) = 1

(***************************************************************************)
(* Properties of one invocation: the reachable managers, the single save,  *)
(* the order of the merge                                                  *)
(***************************************************************************)
\* the places of main where a manager has been loaded
LoadedPcs == {"cmd", "merge", "export_writing", "save", "save_write",
              "save_writing", "save_rename", "done"}

\* C24: in every manager state an invocation reaches (a successful load of a
\* missing or existing file, then any command, import in merge or replace
\* mode included) active_context is a key of contexts, so active_context()
\* and active_context_mut() find their context.
C24_ActiveContextPresent ==
    pc \in LoadedPcs => manager.active_context \in DOMAIN manager.contexts

\* a replace-mode import has changed the active context to one of the
\* imported ones, the previous one being gone
C24_Witness ==
    /\ pc = "save" /\ last.op = "import" /\ ~last.merge /\ last.res.ok
    /\ load(fs.files, store.file_path).mgr.active_context = "default"
    /\ "default" \notin DOMAIN manager.contexts
    /\ active_context(manager).tasks = <<T2, T3>>

\* C27: within one invocation the store file is written only by the one
\* save that follows a successful load and a successful command: a failed
\* load or a failed command ends the invocation with no save and the files
\* as they were.
C27_Step ==
    LET t == store.file_path IN
    /\ fs'.files[t] # fs.files[t] => (pc = "save_rename" /\ pc' = "done")
    /\ (pc' = "save" /\ pc # "save")
          => /\ pc \in {"cmd", "merge", "export_writing"}
             /\ load(fs.files, t).res.ok
             /\ last'.res.ok /\ last'.op \in {"context", "import", "export"}
    /\ (last'.op \in {"load", "context", "import", "export"} /\ ~last'.res.ok)
          => (pc' = "exit_err" /\ fs' = fs)
    /\ pc \in SavePcs => pc' \in (SavePcs \ {"save"}) \cup {"done", "exit_err", "crashed"}
    /\ pc \in {"exit_err", "done", "crashed"} => pc' = pc

C27_WitnessLoad ==
    /\ pc = "exit_err" /\ last.op = "load" /\ ~last.res.ok
    /\ fs.files[store.file_path] = Garbage
    /\ fs.files[temp_path_of(store.file_path)] = Absent

\* C30: the outcome of a merge-mode import, the context names and the tasks
\* stored under each, is the same for every order in which the imported
\* contexts are processed.
C30_MergeOrderIndependent ==
    (pc = "save" /\ last.op = "import" /\ last.merge /\ last.res.ok)
       => LET before == load(fs.files, store.file_path).mgr
              src == import(fs.files, last.arg).mgr.contexts
          IN \A order \in Perms(DOMAIN src) :
                LET other == merge_all(before, src, order) IN
                /\ DOMAIN other.contexts = DOMAIN manager.contexts
                /\ \A n \in DOMAIN manager.contexts :
                      other.contexts[n].tasks = manager.contexts[n].tasks

(***************************************************************************)
(* The race specification: two invocations, each past its load and its     *)
(* command, run Store::save on the same store path.  manager, pc and sv    *)
(* are here functions of the invocation; the files are shared.             *)
(***************************************************************************)
Procs == {1, 2}

\* the managers the two invocations are about to save
RaceManagers ==
    { [contexts |-> [n \in {"default"} |-> Ctx("default", <<T1>>)],
       active_context |-> "default"],
      [contexts |-> [n \in {"default"} |-> Ctx("default", <<T1, T2>>)],
       active_context |-> "default"],
      [contexts |-> [n \in {"default", "work"} |->
                        IF n = "default" THEN Ctx("default", <<>>) ELSE Ctx("work", <<T3>>)],
       active_context |-> "work"] }

\* the number of characters of the text of a JSON value, white space aside
RECURSIVE text_len(_)
text_len(j) ==
    LET RECURSIVE Sum(_, _)
        Sum(f, i) == IF i = 0 THEN 0 ELSE f[i] + Sum(f, i - 1)
    IN IF j.t = "str" THEN Len(j.v) + 2
       ELSE IF j.t = "bool" THEN (IF j.v THEN 4 ELSE 5)
       ELSE IF j.t = "arr"
       THEN 2 + Sum([i \in 1..Len(j.v) |-> text_len(j.v[i]) + 1], Len(j.v))
       ELSE IF j.t = "obj"
       THEN 2 + Sum([i \in 1..Len(j.v) |-> Len(j.v[i][1]) + 4 + text_len(j.v[i][2])],
                    Len(j.v))
       ELSE 0

\* write_all at offset 0 through a descriptor whose file another descriptor
\* may have written since the truncation: a longer old text keeps its tail
overwrite(old, text) ==
    IF old.kind = "file" /\ old.complete /\ old # text
       /\ (old.doc = JBad \/ text_len(old.doc) > text_len(text.doc))
    THEN Garbage
    ELSE text

InitRace ==
    /\ manager \in [Procs -> RaceManagers]
    /\ \E path \in StorePaths, m \in RaceManagers :
          /\ store = [file_path |-> path]
          /\ LET order == CHOOSE o \in Perms(DOMAIN m.contexts) : TRUE
                 files == [p \in {path, temp_path_of(path)} |->
                              IF p = path THEN to_string_pretty(m, order) ELSE Absent]
             IN fs = [files |-> files, dirs |-> DirsOf(files)]
    /\ last = NoCall
    /\ pc = [p \in Procs |-> "save"]
    /\ imp = NoImp
    /\ sv = [p \in Procs |-> NoSave]

\* Store::save up to the temporary path
RaceSaveBegin(p, order) ==
    /\ pc[p] = "save"
    /\ sv' = [sv EXCEPT ![p] = [on |-> TRUE, json |-> to_string_pretty(manager[p], order),
                                path |-> temp_path_of(store.file_path), fd |-> ""]]
    /\ fs' = [fs EXCEPT !.dirs = create_dir_all(@, parent(store.file_path))]
    /\ last' = [op |-> "save_begin", arg |-> store.file_path, res |-> OkUnit, proc |-> p]
    /\ pc' = [pc EXCEPT ![p] = "save_write"]
    /\ UNCHANGED <<manager, imp, store>>

\* std::fs::write opens the temporary path: the file is created or truncated
\* and the descriptor stays with the file wherever a rename moves it
RaceOpenTemp(p) ==
    /\ pc[p] = "save_write"
    /\ fs' = [fs EXCEPT !.files = write(@, sv[p].path, Partial(sv[p].json.doc))]
    /\ sv' = [sv EXCEPT ![p].fd = sv[p].path]
    /\ last' = [op |-> "open", arg |-> sv[p].path, res |-> OkUnit, proc |-> p]
    /\ pc' = [pc EXCEPT ![p] = "save_writing"]
    /\ UNCHANGED <<manager, imp, store>>

\* std::fs::write writes every byte through its descriptor
RaceWriteTemp(p) ==
    /\ pc[p] = "save_writing"
    /\ fs' = IF sv[p].fd = "" THEN fs
             ELSE [fs EXCEPT !.files =
                      write(@, sv[p].fd, overwrite(fs.files[sv[p].fd], sv[p].json))]
    /\ sv' = [sv EXCEPT ![p].fd = ""]
    /\ last' = [op |-> "write", arg |-> sv[p].fd, res |-> OkUnit, proc |-> p]
    /\ pc' = [pc EXCEPT ![p] = "save_rename"]
    /\ UNCHANGED <<manager, imp, store>>

\* std::fs::rename: NotFound when the temporary path is gone; otherwise the
\* file takes the store path, open descriptors following it, and the file
\* that had the store path is unlinked
RaceRename(p) ==
    /\ pc[p] = "save_rename"
    /\ IF ~exists(fs.files, sv[p].path)
       THEN /\ last' = [op |-> "rename", arg |-> store.file_path,
                        res |-> Err("IoError", sv[p].path), proc |-> p]
            /\ pc' = [pc EXCEPT ![p] = "exit_err"]
            /\ UNCHANGED <<fs, sv>>
       ELSE /\ fs' = [fs EXCEPT !.files = rename(@, sv[p].path, store.file_path)]
            /\ sv' = [q \in Procs |->
                         IF sv[q].on /\ sv[q].fd = sv[p].path
                         THEN [sv[q] EXCEPT !.fd = store.file_path]
                         ELSE IF sv[q].on /\ sv[q].fd = store.file_path
                         THEN [sv[q] EXCEPT !.fd = ""]
                         ELSE sv[q]]
            /\ last' = [op |-> "rename", arg |-> store.file_path, res |-> OkUnit,
                        proc |-> p]
            /\ pc' = [pc EXCEPT ![p] = "done"]
    /\ UNCHANGED <<manager, imp, store>>

NextRace ==
    \/ \E p \in Procs :
          \E order \in (IF pc[p] = "save" THEN Perms(DOMAIN manager[p].contexts) ELSE {}) :
             RaceSaveBegin(p, order)
    \/ \E p \in Procs : RaceOpenTemp(p)
    \/ \E p \in Procs : RaceWriteTemp(p)
    \/ \E p \in Procs : RaceRename(p)

SpecRace == InitRace /\ [][NextRace]_vars

\* C25: two invocations running save at once on one store path end as
\* last-writer-wins at the rename: both saves complete, and the store file
\* then holds the complete state of the invocation whose rename came last.
C25_LastWriterWins ==
    (\A p \in Procs : pc[p] \in {"done", "exit_err"})
       => /\ \A p \in Procs : pc[p] = "done"
          /\ last.op = "rename"
          /\ LET r == load(fs.files, store.file_path)
             IN r.res.ok /\ SameManager(r.mgr, manager[last.proc])

(***************************************************************************)
(* Keys and names of the contexts; the end of the merge loop               *)
(***************************************************************************)
\* C31: in every manager a successful load or import returns, and in every
\* manager state after a merge-mode or replace-mode import, each context is
\* stored under a key equal to its own name field.
C31_KeyIsName ==
    pc \in LoadedPcs
       => \A n \in DOMAIN manager.contexts : manager.contexts[n].name = n

\* C34: once import() has returned a manager, a merge never fails partway:
\* for a colliding name the rename loop ends with a name absent from the
\* live manager, so create_context inside the merge never returns
\* ContextAlreadyExists, and every imported context is merged.
C34_Step ==
    (pc = "merge" /\ last'.op = "import" /\ last'.merge)
       => /\ last'.res.ok
          /\ last'.stored \notin DOMAIN manager.contexts
          /\ last'.stored \in DOMAIN manager'.contexts
          /\ manager'.contexts[last'.stored].tasks = imp.src[last'.from].tasks
          /\ imp'.pending = imp.pending \ {last'.from}
          /\ pc' = IF imp'.pending = {} THEN "save" ELSE "merge"

C34_MergeCompletes == [][C34_Step]_vars

\* both imported contexts collided with live names, one of them with the
\* name its rename would have taken first, and both were merged
C34_Witness ==
    /\ pc = "save" /\ last.op = "import" /\ last.merge /\ last.res.ok
    /\ imp.pending = {}
    /\ DOMAIN manager.contexts
          = {"work", "work-imported", "work-imported-2", "work-imported-imported"}
    /\ manager.contexts["work-imported-2"].tasks = <<T2>>
    /\ manager.contexts["work-imported-imported"].tasks = <<T3>>

(***************************************************************************)
(* The resolver on a complete id; the two resolvers against each other     *)
(***************************************************************************)
ResolverOps == {"find_task_id_by_partial", "find_task_by_partial_id"}

DistinctIds == \A i, j \in 1..Len(ActiveIds) : i # j => ActiveIds[i] # ActiveIds[j]

\* no task id is the beginning of another task's id
PrefixFreeIds ==
    \A i, j \in 1..Len(ActiveIds) : i # j => ~starts_with(ActiveIds[j], ActiveIds[i])

\* C32, as stated: for a context whose task ids are pairwise distinct,
\* resolving a prefix p equal to the complete id of some task succeeds and
\* returns exactly that task.
C32_ExactIdResolves ==
    (last.op \in ResolverOps /\ DistinctIds)
       => \A i \in 1..Len(ActiveIds) :
             ActiveIds[i] = last.arg
                => /\ last.res = Ok(last.arg)
                   /\ last.op = "find_task_by_partial_id" => last.idx = i

\* C32, amended: for a context whose task ids are pairwise distinct and none
\* the beginning of another (as with ids of one length), resolving a prefix
\* p equal to the complete id of some task succeeds and returns that task.
C32_ExactIdResolvesPrefixFree ==
    (last.op \in ResolverOps /\ DistinctIds /\ PrefixFreeIds)
       => \A i \in 1..Len(ActiveIds) :
             ActiveIds[i] = last.arg
                => /\ last.res = Ok(last.arg)
                   /\ last.op = "find_task_by_partial_id" => last.idx = i

\* the complete id of the second of three tasks was resolved to that task
C32_Witness ==
    /\ last.op = "find_task_by_partial_id"
    /\ ActiveIds = <<"ab", "aa", "b">>
    /\ last.arg = "aa"
    /\ last.res = Ok("aa") /\ last.idx = 2

\* C35: when find_task_id_by_partial succeeds for a prefix,
\* find_task_by_partial_id on the same context and prefix succeeds too and
\* returns the task whose id is the one returned, the task remove_task would
\* take for that id: complete, edit and delete act on the same task.
C35_ResolversAgree ==
    last.op = "find_task_by_partial_id"
       => LET r == find_task_id_by_partial(active_context(manager), last.arg)
          IN r.ok => /\ last.res = r
                     /\ last.idx \in 1..Len(ActiveIds)
                     /\ ActiveIds[last.idx] = r.val
                     /\ position(ActiveTasks, r.val) = last.idx
                     /\ \A i \in 1..Len(ActiveIds) :
                           i # last.idx => ~starts_with(ActiveIds[i], last.arg)

\* a one-letter prefix was resolved to the last of three tasks
C35_Witness ==
    /\ last.op = "find_task_by_partial_id"
    /\ ActiveIds = <<"ab", "aa", "ba">>
    /\ last.arg = "b"
    /\ last.res = Ok("ba") /\ last.idx = 3

(***************************************************************************)
(* The edit command validates before it looks up                           *)
(***************************************************************************)
BadHorizon(e) == e.horizon.some /\ ~TimeHorizon_from_str(e.horizon.val).ok
BadPriority(e) == e.priority.some /\ ~Priority_from_str(e.priority.val).ok

C33_Step ==
    last'.op = "edit"
       => /\ BadHorizon(last')
             => /\ last'.res = Err("InvalidTimeHorizon", last'.horizon.val)
                /\ manager' = manager
          /\ (~BadHorizon(last') /\ BadPriority(last'))
             => /\ last'.res = Err("InvalidPriority", last'.priority.val)
                /\ manager' = manager

\* C33: an edit command with an invalid horizon or priority string fails
\* with InvalidTimeHorizon or InvalidPriority before any task is looked up
\* or changed: whatever the prefix matches, the error is the validation
\* error and no field of any task changes, even when a new description or a
\* valid other field came with the command.
C33_EditValidatesFirst == [][C33_Step]_vars

\* an edit with a new description, a valid horizon and an invalid priority
\* failed on a prefix that names one task, which still has its old fields
C33_Witness ==
    /\ last.op = "edit"
    /\ last.description = Some("d2") /\ last.horizon = Some("long")
    /\ last.priority = Some("zzz")
    /\ last.res = Err("InvalidPriority", "zzz")
    /\ find_task_id_by_partial(active_context(manager), last.arg).ok
    /\ \A i \in 1..Len(ActiveTasks) :
          ActiveTasks[i].description = "d1" /\ ActiveTasks[i].time_horizon # "LongTerm"

\* an edit with an invalid horizon failed with InvalidTimeHorizon on a prefix
\* that matches no task
C33_WitnessNoTask ==
    /\ last.op = "edit"
    /\ last.horizon = Some("bogus")
    /\ last.res = Err("InvalidTimeHorizon", "bogus")
    /\ Len(ActiveTasks) > 0
    /\ find_task_id_by_partial(active_context(manager), last.arg)
          = Err("TaskNotFound", last.arg)

(***************************************************************************)
(* The save specification: Store::save again and again on one store, the   *)
(* process stopping anywhere in between                                    *)
(***************************************************************************)
\* Store::new takes any path; get_store only ever gives one named data.json
SavePaths == StorePaths \cup {"store.dat", "notes"}

SaveManagers == RaceManagers \cup {ContextManager_new}

InitSave ==
    /\ manager = ContextManager_new
    /\ \E path \in SavePaths, target \in {Absent, to_string_pretty(ContextManager_new, <<"default">>)} :
          /\ store = [file_path |-> path]
          /\ LET files == [p \in {path, temp_path_of(path)} |->
                              IF p = path THEN target ELSE Absent]
             IN fs = [files |-> files, dirs |-> DirsOf(files)]
    /\ last = NoCall
    /\ pc = "save"
    /\ imp = NoImp
    /\ sv = NoSave

\* a later process saves manager m to the same store; stale is what the
\* earlier ones left at the temporary path
SaveAgain(m) ==
    /\ pc \in {"crashed", "done"}
    /\ manager' = m
    /\ last' = [op |-> "save_again", arg |-> IF pc = "crashed" THEN last.arg ELSE pc,
                res |-> OkUnit, stale |-> fs.files[temp_path_of(store.file_path)]]
    /\ pc' = "save"
    /\ sv' = NoSave
    /\ UNCHANGED <<fs, imp, store>>

NextSave ==
    \/ \E order \in Perms(DOMAIN manager.contexts) : SaveBegin(order)
    \/ SaveOpenTemp
    \/ SaveWriteTemp
    \/ SaveRename
    \/ Crash
    \/ \E m \in SaveManagers : SaveAgain(m)

SpecSave == InitSave /\ [][NextSave]_vars

SavedText(f, m) ==
    /\ f.kind = "file" /\ f.complete
    /\ \E order \in Perms(DOMAIN m.contexts) : f = to_string_pretty(m, order)

AfterStale == last.op = "save_again" /\ last.stale.kind = "file"

C36_Step ==
    AfterStale
       => /\ pc' # "exit_err"
          /\ (pc = "save_write" /\ pc' # "crashed")
                => fs'.files[sv.path] = Partial(sv.json.doc)
          /\ (pc = "save_writing" /\ pc' # "crashed")
                => fs'.files[sv.path] = sv.json
          /\ (pc = "save_rename" /\ pc' # "crashed")
                => /\ pc' = "done" /\ last'.op = "save" /\ last'.res.ok
                   /\ SavedText(fs'.files[store.file_path], manager)
                   /\ ~exists(fs'.files, temp_path_of(store.file_path))

\* C36: if an earlier save stopped after creating a complete or partial
\* temporary file, a later save on the same store still succeeds: its write
\* replaces what the temporary file held, and after its rename the target
\* holds the complete new data and no temporary file remains.
C36_SaveAfterStaleTemp == [][C36_Step]_vars

\* a later save of other data has written its temporary file over the partial
\* one an earlier save left when it stopped in the middle of the write
C36_Witness ==
    /\ pc = "save_rename" /\ AfterStale
    /\ last.arg = "save_writing" /\ IsPartial(last.stale)
    /\ last.stale.doc # sv.json.doc
    /\ fs.files[sv.path] = sv.json
    /\ SavedText(sv.json, manager)

\* C37: after every save that returns Ok, a save over an existing file and a
\* repeated save included, the target file exists and holds the complete new
\* data, which loads as the manager saved, and the temporary file does not
\* exist.
C37_SavedFile ==
    (pc = "done" /\ last.op = "save" /\ last.res.ok)
       => /\ exists(fs.files, store.file_path)
          /\ SavedText(fs.files[store.file_path], manager)
          /\ load(fs.files, store.file_path).res.ok
          /\ SameManager(load(fs.files, store.file_path).mgr, manager)
          /\ ~exists(fs.files, temp_path_of(store.file_path))

\* a save of two contexts returned Ok; the first manager of a run has one
\* context, so this save was a later one
C37_Witness ==
    /\ pc = "done" /\ last.op = "save" /\ last.res.ok
    /\ DOMAIN manager.contexts = {"default", "work"}
    /\ SavedText(fs.files[store.file_path], manager)
    /\ store.file_path = "rust-todo/data.json"

\* C38: for every store file path, save writes its temporary file in the
\* same directory as the target, at the target path with ".tmp" appended,
\* and that path is different from the target path.
C38_TempPath ==
    sv.on
       => /\ parent(sv.path) = parent(store.file_path)
          /\ sv.path = store.file_path \o ".tmp"
          /\ sv.path # store.file_path

====
